---- MODULE Spec2Model ----
(***************************************************************************)
(* Model of the Pinecone read-only MCP server: the suggestion flow gate,   *)
(* the namespace cache, the tool handlers that use them, and the hybrid    *)
(* search client (query, count) with the metadata filter validator.        *)
(*                                                                         *)
(* Strings that the code inspects character by character (queries,         *)
(* namespace names, field names, filter keys) are sequences of one-        *)
(* character strings; strings the code only compares or copies are TLA+    *)
(* strings.  Times are milliseconds as returned by Date.now().             *)
(***************************************************************************)
EXTENDS Integers, Sequences, FiniteSets, TLC

VARIABLES
    now,               \* Date.now()
    ticks,             \* number of clock advances so far
    stateByNamespace,  \* suggestion-flow.ts: Map<string, FlowState>
    namespacesCache,   \* namespaces-cache.ts: CacheEntry | null
    backend,           \* inventory the backend currently reports
    fetches,           \* listNamespacesWithMetadata calls completed so far
    pending,           \* handlers suspended at an await
    resp,              \* response of the handler that returned last
    lastMark,          \* history: last markSuggested per namespace
    lastCache,         \* history: last return of getNamespacesWithCache, or invalidate
    fin, fout          \* input and output of the client-function specifications

vars == <<now, ticks, stateByNamespace, namespacesCache, backend, fetches,
          pending, resp, lastMark, lastCache, fin, fout>>

serverVars == <<now, ticks, stateByNamespace, namespacesCache, backend, fetches,
                pending, resp, lastMark, lastCache>>

-----------------------------------------------------------------------------
(* Program constants *)

FLOW_CACHE_TTL_MS == 30 * 60 * 1000
COUNT_TOP_K == 10000
MAX_TOP_K == 100
DEFAULT_QUERY_DOCUMENTS_TOP_K == 5
MAX_QUERY_DOCUMENTS_TOP_K == 20
QUERY_DOCUMENTS_MAX_CHUNKS == 500
CHUNKS_PER_DOCUMENT == 50

(* Bounds of the model *)

MaxTicks == 2
MaxFetches == 2
MaxPending == 1

\* null / undefined, and a present value
Null == [null |-> TRUE]
Some(v) == [null |-> FALSE, v |-> v]

\* a sequence given element by element, as an evaluated array
ToArray(f) == <<>> \o f

Min(a, b) == IF a <= b THEN a ELSE b
Max(a, b) == IF a >= b THEN a ELSE b

-----------------------------------------------------------------------------
(* Character strings *)

LowerOf(c) ==
    CASE c = "C" -> "c" [] c = "H" -> "h" [] c = "L" -> "l" [] c = "M" -> "m"
      [] c = "S" -> "s" [] c = "W" -> "w" [] OTHER -> c

toLowerCase(s) == ToArray([i \in 1..Len(s) |-> LowerOf(s[i])])

IsSpace(c) == c \in {" ", "\t", "\n"}

RECURSIVE trimStart(_)
trimStart(s) == IF s # <<>> /\ IsSpace(Head(s)) THEN trimStart(Tail(s)) ELSE s

RECURSIVE trimEnd(_)
trimEnd(s) ==
    IF s # <<>> /\ IsSpace(s[Len(s)]) THEN trimEnd(SubSeq(s, 1, Len(s) - 1)) ELSE s

trim(s) == trimEnd(trimStart(s))

\* String.prototype.includes
includes(s, p) ==
    \E i \in 0..(Len(s) - Len(p)) : SubSeq(s, i + 1, i + Len(p)) = p

\* \w of a JavaScript regular expression
IsWordChar(c) ==
    c \in {"a","b","c","d","e","f","g","h","i","j","k","l","m","n","o","p","q",
           "r","s","t","u","v","w","x","y","z",
           "A","B","C","D","E","F","G","H","I","J","K","L","M","N","O","P","Q",
           "R","S","T","U","V","W","X","Y","Z",
           "0","1","2","3","4","5","6","7","8","9","_"}

\* /\b(p)\b/.test(s) for a pattern p that begins and ends with a word character
matchesWord(s, p) ==
    \E i \in 0..(Len(s) - Len(p)) :
        /\ SubSeq(s, i + 1, i + Len(p)) = p
        /\ (i = 0 \/ ~IsWordChar(s[i]))
        /\ (i + Len(p) = Len(s) \/ ~IsWordChar(s[i + Len(p) + 1]))

\* Array.prototype.filter, keeping order
RECURSIVE SeqFilter(_, _)
SeqFilter(s, keep) ==
    IF s = <<>> THEN <<>>
    ELSE IF Head(s) \in keep THEN <<Head(s)>> \o SeqFilter(Tail(s), keep)
    ELSE SeqFilter(Tail(s), keep)

Range(s) == {s[i] : i \in 1..Len(s)}

slice(s, n) == SubSeq(s, 1, Min(n, Len(s)))

-----------------------------------------------------------------------------
(* Names, fields and queries used as inputs *)

NS_ML == <<"m", "l">>
NS_WG == <<"w", "g">>
F_URL == <<"u", "r", "l">>
F_TITLE == <<"t", "i", "t", "l", "e">>
F_AUTHOR == <<"a", "u", "t", "h", "o", "r">>
F_DOC_ID == <<"d", "o", "c", "_", "i", "d">>
F_DOCUMENT_NUMBER == <<"d", "o", "c", "u", "m", "e", "n", "t", "_", "n", "u", "m", "b", "e", "r">>
F_CHUNK_TEXT == <<"c", "h", "u", "n", "k", "_", "t", "e", "x", "t">>

Q_BLANK == <<" ", " ">>
Q_COUNT == <<"C", "o", "u", "n", "t", " ", "m", "l", " ">>
Q_SAY == <<"s", "a", "y", " ", "w", "g">>
Q_LIST == <<"l", "i", "s", "t", " ", "t", "i", "t", "l", "e">>

NsArgs == {NS_ML, NS_WG}
Queries == {Q_BLANK, Q_COUNT, Q_SAY, Q_LIST}
SuggestQueries == {Q_BLANK, Q_COUNT}

COUNT_FIELDS == <<F_DOCUMENT_NUMBER, F_URL, F_DOC_ID>>
FAST_QUERY_FIELDS == <<F_DOCUMENT_NUMBER, F_TITLE, F_URL, F_AUTHOR, F_DOC_ID>>

\* NamespaceInfo; metadata is the field map in key order, as <<name, type tag>>
INFO_ML == [namespace |-> NS_ML, recordCount |-> 5,
            metadata |-> << <<F_URL, "string">>, <<F_TITLE, "string">> >>]
INFO_WG == [namespace |-> NS_WG, recordCount |-> 3, metadata |-> <<>>]

Inventories == {<<INFO_ML>>, <<INFO_ML, INFO_WG>>}

-----------------------------------------------------------------------------
(* Query suggestion engine *)

CountIntentPatterns ==
    {<<"h", "o", "w", " ", "m", "a", "n", "y">>,
     <<"c", "o", "u", "n", "t">>,
     <<"n", "u", "m", "b", "e", "r", " ", "o", "f">>,
     <<"t", "o", "t", "a", "l", " ", "n", "u", "m", "b", "e", "r">>,
     <<"p", "a", "p", "e", "r", " ", "c", "o", "u", "n", "t">>,
     <<"d", "o", "c", "u", "m", "e", "n", "t", " ", "c", "o", "u", "n", "t">>,
     <<"d", "o", "c", "u", "m", "e", "n", "t", "s", " ", "c", "o", "u", "n", "t">>}

ContentIntentPatterns ==
    {<<"c", "o", "n", "t", "e", "n", "t">>,
     <<"s", "u", "m", "m", "a", "r", "i", "z", "e">>,
     <<"s", "u", "m", "m", "a", "r", "i", "s", "e">>,
     <<"w", "h", "a", "t", " ", "d", "o", "e", "s">>,
     <<"e", "x", "c", "e", "r", "p", "t">>,
     <<"t", "e", "x", "t">>,
     <<"s", "a", "y">>,
     <<"d", "e", "t", "a", "i", "l">>,
     <<"d", "e", "t", "a", "i", "l", "s">>,
     <<"f", "u", "l", "l", " ", "t", "e", "x", "t">>,
     <<"b", "o", "d", "y">>}

\* Object.keys of a field map
Keys(metadata) == ToArray([i \in 1..Len(metadata) |-> metadata[i][1]])

\* suggestQueryParams without its count-intent branch
suggestQueryParamsNeverCount(namespaceMetadataFields, userQuery) ==
    [suggested_fields |-> <<>>, use_count_tool |-> FALSE,
     recommended_tool |-> "query_fast",
     namespace_found |-> ~namespaceMetadataFields.null]

\* suggestQueryParams(namespaceMetadataFields, userQuery); the first argument
\* is Null or Some(field map)
suggestQueryParams(namespaceMetadataFields, userQuery) ==
    LET q == trim(toLowerCase(userQuery))
        available == IF namespaceMetadataFields.null THEN <<>>
                     ELSE Keys(namespaceMetadataFields.v)
        keepOnlyAvailable(fields) == SeqFilter(fields, Range(available))
        countFields == keepOnlyAvailable(COUNT_FIELDS)
        contentFields == keepOnlyAvailable(
            <<F_DOCUMENT_NUMBER, F_TITLE, F_URL, F_AUTHOR, F_CHUNK_TEXT>>)
        listFields == keepOnlyAvailable(<<F_DOCUMENT_NUMBER, F_TITLE, F_URL, F_AUTHOR>>)
    IN  IF namespaceMetadataFields.null THEN
            [suggested_fields |-> <<>>, use_count_tool |-> FALSE,
             recommended_tool |-> "query_fast", namespace_found |-> FALSE]
        ELSE IF Len(available) = 0 THEN
            [suggested_fields |-> <<>>, use_count_tool |-> FALSE,
             recommended_tool |-> "query_fast", namespace_found |-> TRUE]
        ELSE IF \E p \in CountIntentPatterns : matchesWord(q, p) THEN
            [suggested_fields |-> IF Len(countFields) > 0 THEN countFields
                                  ELSE slice(available, 5),
             use_count_tool |-> TRUE,
             recommended_tool |-> "count", namespace_found |-> TRUE]
        ELSE IF \E p \in ContentIntentPatterns : matchesWord(q, p) THEN
            [suggested_fields |-> IF Len(contentFields) > 0 THEN contentFields
                                  ELSE available,
             use_count_tool |-> FALSE,
             recommended_tool |-> "query_detailed", namespace_found |-> TRUE]
        ELSE
            [suggested_fields |-> IF Len(listFields) > 0 THEN listFields
                                  ELSE slice(available, 5),
             use_count_tool |-> FALSE,
             recommended_tool |-> "query_fast", namespace_found |-> TRUE]

-----------------------------------------------------------------------------
(* Namespace router *)

IsLowerAlnum(c) ==
    c \in {"a","b","c","d","e","f","g","h","i","j","k","l","m","n","o","p","q",
           "r","s","t","u","v","w","x","y","z",
           "0","1","2","3","4","5","6","7","8","9"}

\* split(/\s+/).filter(Boolean)
RECURSIVE SplitWords(_, _)
SplitWords(s, cur) ==
    IF s = <<>> THEN (IF cur = <<>> THEN <<>> ELSE <<cur>>)
    ELSE IF IsSpace(Head(s))
         THEN (IF cur = <<>> THEN <<>> ELSE <<cur>>) \o SplitWords(Tail(s), <<>>)
         ELSE SplitWords(Tail(s), Append(cur, Head(s)))

RECURSIVE SumSeq(_)
SumSeq(s) == IF s = <<>> THEN 0 ELSE Head(s) + SumSeq(Tail(s))

scoreNamespace(query, namespace, fields) ==
    LET q == toLowerCase(query)
        name == toLowerCase(namespace)
        normalizedName ==
            trim(ToArray([i \in 1..Len(name) |-> IF IsLowerAlnum(name[i]) THEN name[i] ELSE " "]))
        nameTokens == SplitWords(normalizedName, <<>>)
        nameScore ==
            IF normalizedName # <<>> /\ includes(q, normalizedName) THEN 3
            ELSE SumSeq(ToArray([i \in 1..Len(nameTokens) |->
                    IF Len(nameTokens[i]) >= 2 /\ includes(q, nameTokens[i])
                    THEN 2 ELSE 0]))
        fieldScore ==
            SumSeq(ToArray([i \in 1..Len(fields) |->
                    IF includes(q, toLowerCase(fields[i])) THEN 1 ELSE 0]))
    IN  nameScore + fieldScore

\* the comparator that prefers the larger namespace on equal score
RankCompareLargestFirst(a, b) ==
    IF b.score # a.score THEN b.score - a.score
    ELSE b.record_count - a.record_count

\* the comparator of rankNamespacesByQuery: negative when a sorts before b
RankCompare(a, b) ==
    IF b.score # a.score THEN b.score - a.score
    ELSE a.record_count - b.record_count

\* Array.prototype.sort (stable) with RankCompare
RECURSIVE RankInsert(_, _)
RankInsert(sorted, x) ==
    IF sorted = <<>> THEN <<x>>
    ELSE IF RankCompare(x, Head(sorted)) < 0 THEN <<x>> \o sorted
    ELSE <<Head(sorted)>> \o RankInsert(Tail(sorted), x)

RECURSIVE RankSort(_)
RankSort(s) ==
    IF s = <<>> THEN <<>>
    ELSE RankInsert(RankSort(SubSeq(s, 1, Len(s) - 1)), s[Len(s)])

rankNamespacesByQuery(query, namespaces, topN) ==
    LET scored == ToArray([i \in 1..Len(namespaces) |->
            [namespace |-> namespaces[i].namespace,
             score |-> scoreNamespace(trim(query), namespaces[i].namespace,
                                      Keys(namespaces[i].metadata)),
             record_count |-> namespaces[i].recordCount]])
    IN  slice(RankSort(scored), topN)

-----------------------------------------------------------------------------
(* Metadata filter validator (metadata-filter.ts)                          *)
(* A JSON value is [t |-> "string" | "number" | "boolean" | "null"],       *)
(* [t |-> "array", items |-> seq] or [t |-> "object", entries |-> seq of   *)
(* <<key, value>> in Object.entries order].                                *)

K_EQ == <<"$", "e", "q">>
K_NE == <<"$", "n", "e">>
K_GT == <<"$", "g", "t">>
K_GTE == <<"$", "g", "t", "e">>
K_LT == <<"$", "l", "t">>
K_LTE == <<"$", "l", "t", "e">>
K_IN == <<"$", "i", "n">>
K_NIN == <<"$", "n", "i", "n">>
K_REGEX == <<"$", "r", "e", "g", "e", "x">>
K_OR == <<"$", "o", "r">>
K_YEAR == <<"y", "e", "a", "r">>
K_TAGS == <<"t", "a", "g", "s">>

ALLOWED_FILTER_OPERATORS == {K_EQ, K_NE, K_GT, K_GTE, K_LT, K_LTE, K_IN, K_NIN}

JStr == [t |-> "string"]
JNum == [t |-> "number"]
JBool == [t |-> "boolean"]
JNull == [t |-> "null"]
JArr(items) == [t |-> "array", items |-> items]
JObj(entries) == [t |-> "object", entries |-> entries]

isPrimitiveFilterValue(value) == value.t \in {"string", "number", "boolean"}

isPrimitiveArray(value) ==
    /\ value.t = "array"
    /\ \A i \in 1..Len(value.items) : isPrimitiveFilterValue(value.items[i])

startsWithDollar(key) == Len(key) >= 1 /\ key[1] = "$"

\* path.join('.')
RECURSIVE joinPath(_)
joinPath(path) ==
    IF path = <<>> THEN <<>>
    ELSE IF Len(path) = 1 THEN path[1]
    ELSE path[1] \o <<".">> \o joinPath(Tail(path))

MsgInvalidNull(path) ==
    <<"I", "n", "v", "a", "l", "i", "d", " ", "n", "u", "l", "l", "/", "u", "n", "d", "e", "f", "i", "n", "e", "d", " ", "a", "t", " ", "\"">> \o joinPath(path) \o <<"\"", ".">>
MsgUnsupportedValue(path) ==
    <<"U", "n", "s", "u", "p", "p", "o", "r", "t", "e", "d", " ", "f", "i", "l", "t", "e", "r", " ", "v", "a", "l", "u", "e", " ", "a", "t", " ", "\"">> \o joinPath(path) \o <<"\"", ".">>
MsgUnsupportedOperator(key, path) ==
    <<"U", "n", "s", "u", "p", "p", "o", "r", "t", "e", "d", " ", "f", "i", "l", "t", "e", "r", " ", "o", "p", "e", "r", "a", "t", "o", "r", " ", "\"">> \o key \o <<"\"", " ", "a", "t", " ", "\"">> \o joinPath(path) \o <<"\"", ".">>
MsgMustUseArray(key, path) ==
    <<"O", "p", "e", "r", "a", "t", "o", "r", " ", "\"">> \o key \o <<"\"", " ", "a", "t", " ", "\"">> \o joinPath(path) \o <<"\"", " ", "m", "u", "s", "t", " ", "u", "s", "e", " ", "a", "n", " ", "a", "r", "r", "a", "y", " ", "o", "f", " ", "p", "r", "i", "m", "i", "t", "i", "v", "e", " ", "v", "a", "l", "u", "e", "s", ".">>

RECURSIVE validateMetadataFilterValue(_, _)
RECURSIVE validateEntries(_, _, _)

\* the for-loop of validateMetadataFilterValue over Object.entries(value), from entry i
validateEntries(entries, i, path) ==
    IF i > Len(entries) THEN Null
    ELSE LET key == entries[i][1]
             nestedValue == entries[i][2]
         IN  IF startsWithDollar(key) /\ key \notin ALLOWED_FILTER_OPERATORS
             THEN Some(MsgUnsupportedOperator(key, path))
             ELSE IF startsWithDollar(key) /\ key \in {K_IN, K_NIN}
                     /\ ~isPrimitiveArray(nestedValue)
             THEN Some(MsgMustUseArray(key, path))
             ELSE LET nestedError ==
                          validateMetadataFilterValue(nestedValue, Append(path, key))
                  IN  IF ~nestedError.null THEN nestedError
                      ELSE validateEntries(entries, i + 1, path)

validateMetadataFilterValue(value, path) ==
    IF value.t = "null" THEN Some(MsgInvalidNull(path))
    ELSE IF isPrimitiveFilterValue(value) \/ isPrimitiveArray(value) THEN Null
    ELSE IF value.t # "object" THEN Some(MsgUnsupportedValue(path))
    ELSE validateEntries(value.entries, 1, path)

\* the for-loop of validateMetadataFilter over Object.entries(filter), from entry i
RECURSIVE validateTop(_, _)
validateTop(entries, i) ==
    IF i > Len(entries) THEN Null
    ELSE LET error == validateMetadataFilterValue(entries[i][2], <<entries[i][1]>>)
         IN  IF ~error.null THEN error ELSE validateTop(entries, i + 1)

\* validateMetadataFilter(filter): Null, or Some(message)
validateMetadataFilter(filter) == validateTop(filter.entries, 1)

-----------------------------------------------------------------------------
(* Suggestion flow gate (suggestion-flow.ts)                               *)
(* The Map is a function whose domain is the set of keys present.          *)

MapSet(map, key, value) ==
    [k \in (DOMAIN map) \cup {key} |-> IF k = key THEN value ELSE map[k]]

MapDelete(map, key) == [k \in (DOMAIN map) \ {key} |-> map[k]]

EmptyMap == [k \in {} |-> 0]

\* markSuggested(namespace, state) at clock reading t; returns the new Map
markSuggested(map, namespace, state, t) ==
    MapSet(map, namespace,
           [updatedAt |-> t,
            recommended_tool |-> state.recommended_tool,
            suggested_fields |-> state.suggested_fields,
            user_query |-> state.user_query])

\* requireSuggested that consumes the entry when it lets a call pass
requireSuggestedOneShot(map, namespace, t) ==
    IF namespace \notin DOMAIN map THEN
        [ok |-> FALSE, kind |-> "gate_missing", map |-> map]
    ELSE IF t - map[namespace].updatedAt > FLOW_CACHE_TTL_MS THEN
        [ok |-> FALSE, kind |-> "gate_expired", map |-> MapDelete(map, namespace)]
    ELSE
        [ok |-> TRUE, kind |-> "ok", map |-> MapDelete(map, namespace)]

\* requireSuggested without the age test: an entry, once set, opens the gate for ever
requireSuggestedNoExpiry(map, namespace, t) ==
    IF namespace \notin DOMAIN map THEN
        [ok |-> FALSE, kind |-> "gate_missing", map |-> map]
    ELSE
        [ok |-> TRUE, kind |-> "ok", map |-> map]

\* requireSuggested that rejects an expired entry and leaves it in the Map
requireSuggestedKeepsExpired(map, namespace, t) ==
    IF namespace \notin DOMAIN map THEN
        [ok |-> FALSE, kind |-> "gate_missing", map |-> map]
    ELSE IF t - map[namespace].updatedAt > FLOW_CACHE_TTL_MS THEN
        [ok |-> FALSE, kind |-> "gate_expired", map |-> map]
    ELSE
        [ok |-> TRUE, kind |-> "ok", map |-> map]

\* requireSuggested(namespace) at clock reading t; returns the result and the new Map
requireSuggested(map, namespace, t) ==
    IF namespace \notin DOMAIN map THEN
        [ok |-> FALSE, kind |-> "gate_missing", map |-> map]
    ELSE IF t - map[namespace].updatedAt > FLOW_CACHE_TTL_MS THEN
        [ok |-> FALSE, kind |-> "gate_expired", map |-> MapDelete(map, namespace)]
    ELSE
        [ok |-> TRUE, kind |-> "ok", map |-> map]

-----------------------------------------------------------------------------
(* Hybrid search client (pinecone-client.ts)                               *)
(* A hit is [_id, _score, fields]; fields maps field names to tagged       *)
(* values [t |-> type, v |-> value].  A search outcome is Fails or         *)
(* Hits(list), the list being what the index holds for the query, best     *)
(* first.                                                                  *)

Fails == [fails |-> TRUE]
Hits(list) == [fails |-> FALSE, hits |-> list]

StrV(x) == [t |-> "string", v |-> x]
NumV(x) == [t |-> "number", v |-> x]

\* searchIndex: the index answers with at most top_k hits, or the search throws
searchIndex(outcome, topK) ==
    IF outcome.fails THEN [threw |-> TRUE, hits |-> <<>>]
    ELSE [threw |-> FALSE, hits |-> slice(outcome.hits, topK)]

\* index of the entry with this id in a list of merged hits, 0 when absent
IndexOfId(deduped, hitId) ==
    IF \E i \in 1..Len(deduped) : deduped[i]._id = hitId
    THEN CHOOSE i \in 1..Len(deduped) : deduped[i]._id = hitId
    ELSE 0

ToMergedHit(hit) ==
    [_id |-> hit._id,
     _score |-> hit._score,
     chunk_text |-> IF "chunk_text" \in DOMAIN hit.fields
                       /\ hit.fields["chunk_text"].t = "string"
                    THEN hit.fields["chunk_text"].v ELSE "",
     metadata |-> [k \in (DOMAIN hit.fields) \ {"chunk_text"} |-> hit.fields[k]]]

\* the loop body that never replaces an entry already stored
mergeStepKeepsFirst(deduped, hit) ==
    IF \E i \in 1..Len(deduped) : deduped[i]._id = hit._id THEN deduped
    ELSE Append(deduped, [_id |-> hit._id, _score |-> hit._score,
                          chunk_text |-> hit.fields["chunk_text"].v,
                          metadata |-> [k \in (DOMAIN hit.fields) \ {"chunk_text"} |-> hit.fields[k]]])

\* the body of the for-loop of mergeResults; deduped lists the entries of the
\* Map in key insertion order
mergeStep(deduped, hit) ==
    LET at == IndexOfId(deduped, hit._id)
    IN  IF at # 0 /\ deduped[at]._score >= hit._score THEN deduped
        ELSE IF at # 0 THEN [deduped EXCEPT ![at] = ToMergedHit(hit)]
        ELSE Append(deduped, ToMergedHit(hit))

\* the for-loop of mergeResults over hits[lo..hi], in order (the range is split in
\* two so that the evaluation stays shallow on long lists)
RECURSIVE mergeLoop(_, _, _, _)
mergeLoop(hits, lo, hi, deduped) ==
    IF lo > hi THEN deduped
    ELSE IF lo = hi THEN mergeStep(deduped, hits[lo])
    ELSE LET mid == (lo + hi) \div 2
             firstHalf == mergeLoop(hits, lo, mid, deduped)
         IN  \* the test has TLC evaluate the first half before the second
             IF Len(firstHalf) = 0 THEN mergeLoop(hits, mid + 1, hi, <<>>)
             ELSE mergeLoop(hits, mid + 1, hi, firstHalf)

\* Array.prototype.sort (stable) by (b._score - a._score): an entry goes after
\* every entry with a higher score and every earlier entry with the same score
ScoreSort(s) ==
    LET n == Len(s)
        rank == ToArray([i \in 1..n |->
                    1 + Cardinality({j \in 1..n :
                            \/ s[j]._score - s[i]._score > 0
                            \/ s[j]._score = s[i]._score /\ j < i})])
    IN  ToArray([k \in 1..n |-> s[CHOOSE i \in 1..n : rank[i] = k]])

mergeResults(denseHits, sparseHits) ==
    LET hits == denseHits \o sparseHits
    IN  ScoreSort(mergeLoop(hits, 1, Len(hits), <<>>))

ToSearchResult(m, reranked) ==
    [id |-> m._id, content |-> m.chunk_text, score |-> m._score,
     metadata |-> m.metadata, reranked |-> reranked]

\* what the rerank model answers for these documents: the topN best in its own
\* order (here the reverse of the input order) with its own scores
RerankerAnswer(results, topN) ==
    LET n == Len(results)
        all == ToArray([i \in 1..n |-> [document |-> results[n + 1 - i], score |-> n + 1 - i]])
    IN  slice(all, topN)

\* rerankResults whose fallback forgets slice(0, topN)
rerankResultsFallbackUnsliced(results, topN, rerankOk) ==
    IF Len(results) = 0 THEN [documents |-> <<>>, called |-> FALSE]
    ELSE IF rerankOk THEN
        LET data == RerankerAnswer(results, topN)
        IN  [documents |-> ToArray([i \in 1..Len(data) |->
                 [id |-> data[i].document._id,
                  content |-> data[i].document.chunk_text,
                  score |-> data[i].score,
                  metadata |-> data[i].document.metadata,
                  reranked |-> TRUE]]),
             called |-> TRUE]
    ELSE
        [documents |-> ToArray([i \in 1..Len(results) |->
                                   ToSearchResult(results[i], FALSE)]),
         called |-> TRUE]

\* rerankResults(query, results, topN); rerankOk tells whether pc.inference.rerank
\* answers or throws.  called: whether the rerank model was called.
rerankResults(results, topN, rerankOk) ==
    IF Len(results) = 0 THEN [documents |-> <<>>, called |-> FALSE]
    ELSE IF rerankOk THEN
        LET data == RerankerAnswer(results, topN)
        IN  [documents |-> ToArray([i \in 1..Len(data) |->
                 [id |-> data[i].document._id,
                  content |-> data[i].document.chunk_text,
                  score |-> data[i].score,
                  metadata |-> data[i].document.metadata,
                  reranked |-> TRUE]]),
             called |-> TRUE]
    ELSE
        LET top == slice(results, topN)
        IN  [documents |-> ToArray([i \in 1..Len(top) |-> ToSearchResult(top[i], FALSE)]),
             called |-> TRUE]

SearchCall(index, topK, filter) ==
    [op |-> "search", index |-> index, topK |-> topK, filter |-> filter]

RerankCall(topN) == [op |-> "rerank", index |-> "inference", topK |-> topN, filter |-> Null]

\* the test with "or" in place of "and"
eitherRejected(denseResult, sparseResult) == denseResult.threw \/ sparseResult.threw

\* PineconeClient.query: denseResult.status === 'rejected' && sparseResult.status === 'rejected'
bothRejected(denseResult, sparseResult) == denseResult.threw /\ sparseResult.threw

\* PineconeClient.query: the result, or threw with the error, and the backend
\* calls it issued
query(queryText, requestedTopK, metadataFilter, useReranking, denseOutcome, sparseOutcome, rerankOk) ==
    IF trim(queryText) = <<>> THEN
        [threw |-> TRUE, error |-> "Query cannot be empty", documents |-> <<>>, calls |-> {}]
    ELSE IF requestedTopK < 1 THEN
        [threw |-> TRUE, error |-> "topK must be at least 1", documents |-> <<>>, calls |-> {}]
    ELSE
        LET topK == IF requestedTopK > MAX_TOP_K THEN MAX_TOP_K ELSE requestedTopK
            denseResult == searchIndex(denseOutcome, topK)
            sparseResult == searchIndex(sparseOutcome, topK)
            searches == {SearchCall("dense", topK, metadataFilter),
                         SearchCall("sparse", topK, metadataFilter)}
            mergedResults == mergeResults(denseResult.hits, sparseResult.hits)
            reranking == rerankResults(mergedResults, topK, rerankOk)
            top == slice(mergedResults, topK)
        IN  IF bothRejected(denseResult, sparseResult) THEN
                [threw |-> TRUE,
                 error |-> "Hybrid search failed: both dense and sparse index searches failed.",
                 documents |-> <<>>, calls |-> searches]
            ELSE IF useReranking THEN
                [threw |-> FALSE, error |-> "", documents |-> reranking.documents,
                 calls |-> searches \cup
                           (IF reranking.called THEN {RerankCall(topK)} ELSE {})]
            ELSE
                [threw |-> FALSE, error |-> "",
                 documents |-> ToArray([i \in 1..Len(top) |-> ToSearchResult(top[i], FALSE)]),
                 calls |-> searches]

\* the key taken from url before document_number
docKeyOfUrlFirst(hit) ==
    LET isStr(f) == f \in DOMAIN hit.fields /\ hit.fields[f].t = "string"
    IN  IF isStr("url") THEN hit.fields["url"].v
        ELSE IF isStr("document_number") THEN hit.fields["document_number"].v
        ELSE IF isStr("doc_id") THEN hit.fields["doc_id"].v
        ELSE hit._id

\* the key count() gives a hit: the first string-valued identifier field, else the id
docKeyOf(hit) ==
    LET isStr(f) == f \in DOMAIN hit.fields /\ hit.fields[f].t = "string"
    IN  IF isStr("document_number") THEN hit.fields["document_number"].v
        ELSE IF isStr("url") THEN hit.fields["url"].v
        ELSE IF isStr("doc_id") THEN hit.fields["doc_id"].v
        ELSE hit._id

\* PineconeClient.count
count(queryText, metadataFilter, denseOutcome) ==
    IF trim(queryText) = <<>> THEN
        [threw |-> TRUE, error |-> "Query cannot be empty", count |-> 0,
         truncated |-> FALSE, calls |-> {}]
    ELSE
        LET result == searchIndex(denseOutcome, COUNT_TOP_K)
            hits == result.hits
            docKeys == {docKeyOf(hits[i]) : i \in 1..Len(hits)}
            searches == {SearchCall("dense", COUNT_TOP_K, metadataFilter)}
        IN  IF result.threw THEN
                [threw |-> TRUE, error |-> "Pinecone search failed", count |-> 0,
                 truncated |-> FALSE, calls |-> searches]
            ELSE
                [threw |-> FALSE, error |-> "", count |-> Cardinality(docKeys),
                 truncated |-> Len(hits) >= COUNT_TOP_K, calls |-> searches]

\* PineconeClient.keywordSearch: one search of the sparse-only index, no merge,
\* no reranking
keywordSearch(queryText, requestedTopK, metadataFilter, sparseOutcome) ==
    IF trim(queryText) = <<>> THEN
        [threw |-> TRUE, error |-> "Query cannot be empty", documents |-> <<>>, calls |-> {}]
    ELSE
        LET result == searchIndex(sparseOutcome, requestedTopK)
            searches == {SearchCall("sparse-only", requestedTopK, metadataFilter)}
        IN  IF result.threw THEN
                [threw |-> TRUE, error |-> "Pinecone search failed",
                 documents |-> <<>>, calls |-> searches]
            ELSE
                [threw |-> FALSE, error |-> "",
                 documents |-> ToArray([i \in 1..Len(result.hits) |->
                     ToSearchResult(ToMergedHit(result.hits[i]), FALSE)]),
                 calls |-> searches]

-----------------------------------------------------------------------------
(* Namespace cache (namespaces-cache.ts) and discovery                     *)

\* PineconeClient.listNamespacesWithMetadata: the inventory the backend reports,
\* or the empty list when the stats call fails
listNamespacesWithMetadata(statsOk, inventory) ==
    IF statsOk THEN inventory ELSE <<>>

\* the hit test with the comparison turned round
cacheIsFreshInverted(cache, t) == ~cache.null /\ t > cache.expiresAt

\* the hit test of getNamespacesWithCache at clock reading t
cacheIsFresh(cache, t) == ~cache.null /\ t < cache.expiresAt

\* the entry that leaves the slot empty when the fetch brought no namespaces
cacheEntryUnlessEmpty(data, now0) ==
    [null |-> data.items = <<>>, data |-> data, expiresAt |-> now0 + FLOW_CACHE_TTL_MS]

\* the entry whose expiry counts from the return of the fetch
cacheEntryAtReturn(data, now0) ==
    [null |-> FALSE, data |-> data, expiresAt |-> now + FLOW_CACHE_TTL_MS]

\* the entry getNamespacesWithCache stores after a fetch that started at now0
cacheEntryAfterFetch(data, now0) ==
    [null |-> FALSE, data |-> data, expiresAt |-> now0 + FLOW_CACHE_TTL_MS]

\* namespaces.find((n) => n.namespace === namespace)?.metadata ?? null
metadataOf(namespaces, namespace) ==
    IF \E i \in 1..Len(namespaces) : namespaces[i].namespace = namespace
    THEN Some(namespaces[CHOOSE i \in 1..Len(namespaces) :
                  /\ namespaces[i].namespace = namespace
                  /\ \A j \in 1..(i - 1) : namespaces[j].namespace # namespace].metadata)
    ELSE Null


-----------------------------------------------------------------------------
(* Inputs of the tool handlers *)

FILTER_OK == JObj(<< <<K_YEAR, JObj(<< <<K_GTE, JNum>> >>)>> >>)
FILTER_BAD == JObj(<< <<K_YEAR, JObj(<< <<K_REGEX, JStr>> >>)>> >>)
FilterArgs == {Null, Some(FILTER_OK), Some(FILTER_BAD)}

H1 == [_id |-> "c1", _score |-> 9,
       fields |-> [chunk_text |-> StrV("t1"), document_number |-> StrV("p1")]]

\* what the two indexes and the rerank model do during one call of a tool
ServerOutcomes ==
    {[dense |-> Fails, sparse |-> Fails, rerankOk |-> TRUE],
     [dense |-> Hits(<<H1>>), sparse |-> Fails, rerankOk |-> TRUE],
     [dense |-> Fails, sparse |-> Hits(<<H1>>), rerankOk |-> FALSE],
     [dense |-> Hits(<<>>), sparse |-> Hits(<<>>), rerankOk |-> TRUE]}

\* query text and filter of a call of an execution tool
ExecArgs ==
    {[q |-> Q_BLANK, f |-> Null],
     [q |-> Q_LIST, f |-> Some(FILTER_OK)],
     [q |-> Q_LIST, f |-> Some(FILTER_BAD)]}

\* arguments of a call of guided_query; the empty string is a namespace argument
\* the schema lets through
GuidedArgs ==
    {[ns |-> Null, q |-> Q_BLANK, f |-> Null, pref |-> "auto"],
     [ns |-> Some(NS_ML), q |-> Q_COUNT, f |-> Some(FILTER_BAD), pref |-> "auto"],
     [ns |-> Null, q |-> Q_COUNT, f |-> Null, pref |-> "auto"],
     [ns |-> Some(NS_WG), q |-> Q_LIST, f |-> Some(FILTER_OK), pref |-> "query_fast"],
     [ns |-> Some(<<>>), q |-> Q_LIST, f |-> Null, pref |-> "query_detailed"]}

TopKArgs == {3}
DocTopKArgs == {1, DEFAULT_QUERY_DOCUMENTS_TOP_K}
Steps == {1, FLOW_CACHE_TTL_MS}

ExecTools == {"count", "query", "query_fast", "query_detailed", "query_documents"}

NoNs == <<>>

\* a tool response: status and what kind of outcome, the backend calls the
\* handler issued, and for the tools that read the namespace cache what
\* getNamespacesWithCache returned
Response(tool, ns, status, kind, calls) ==
    [tool |-> tool, ns |-> ns, status |-> status, kind |-> kind, calls |-> calls,
     cache_hit |-> FALSE, namespace_found |-> FALSE, selected_tool |-> ""]

CacheResponse(tool, ns, status, kind, hit) ==
    [Response(tool, ns, status, kind, {}) EXCEPT !.cache_hit = hit]

NoResponse == Response("none", NoNs, "none", "none", {})

RemoveAt(s, i) == SubSeq(s, 1, i - 1) \o SubSeq(s, i + 1, Len(s))

-----------------------------------------------------------------------------
(* Environment *)

Tick(d) ==
    /\ ticks < MaxTicks
    /\ now' = now + d
    /\ ticks' = ticks + 1
    /\ UNCHANGED <<stateByNamespace, namespacesCache, backend, fetches, pending, resp,
                   lastMark, lastCache, fin, fout>>

\* the transport takes the response of the handler that returned
Deliver ==
    /\ resp # NoResponse
    /\ resp' = NoResponse
    /\ UNCHANGED <<now, ticks, stateByNamespace, namespacesCache, backend, fetches,
                   pending, lastMark, lastCache, fin, fout>>

BackendChange(inv) ==
    /\ inv # backend
    /\ backend' = inv
    /\ UNCHANGED <<now, ticks, stateByNamespace, namespacesCache, fetches, pending, resp,
                   lastMark, lastCache, fin, fout>>

-----------------------------------------------------------------------------
(* Execution tools *)

frameExec == UNCHANGED <<now, ticks, namespacesCache, backend, fetches, pending,
                         lastMark, lastCache, fin, fout>>

\* the handlers' filter test left out
filterErrorSkipped(metadata_filter) == Null

filterError(metadata_filter) ==
    IF metadata_filter.null THEN Null ELSE validateMetadataFilter(metadata_filter.v)

\* count-tool.ts: the count handler
CountTool(namespace, query_text, metadata_filter, denseOutcome) ==
    LET flowCheck == requireSuggested(stateByNamespace, namespace, now)
        r == count(trim(query_text), metadata_filter, denseOutcome)
    IN  /\ frameExec
        /\ IF trim(query_text) = <<>> THEN
               /\ resp' = Response("count", namespace, "error", "empty_query", {})
               /\ UNCHANGED stateByNamespace
           ELSE IF ~filterError(metadata_filter).null THEN
               /\ resp' = Response("count", namespace, "error", "invalid_filter", {})
               /\ UNCHANGED stateByNamespace
           ELSE IF ~flowCheck.ok THEN
               /\ resp' = Response("count", namespace, "error", flowCheck.kind, {})
               /\ stateByNamespace' = flowCheck.map
           ELSE
               /\ resp' = IF r.threw
                          THEN Response("count", namespace, "error", "exception", r.calls)
                          ELSE Response("count", namespace, "success", "ok", r.calls)
               /\ stateByNamespace' = flowCheck.map

\* query-tool.ts: executeQuery, shared by query, query_fast and query_detailed
executeQuery(mode, namespace, query_text, top_k, use_reranking, metadata_filter, denseOutcome, sparseOutcome, rerankOk) ==
    LET flowCheck == requireSuggested(stateByNamespace, namespace, now)
        r == query(trim(query_text), top_k, metadata_filter, use_reranking,
                   denseOutcome, sparseOutcome, rerankOk)
    IN  /\ frameExec
        /\ IF trim(query_text) = <<>> THEN
               /\ resp' = Response(mode, namespace, "error", "empty_query", {})
               /\ UNCHANGED stateByNamespace
           ELSE IF ~filterError(metadata_filter).null THEN
               /\ resp' = Response(mode, namespace, "error", "invalid_filter", {})
               /\ UNCHANGED stateByNamespace
           ELSE IF ~flowCheck.ok THEN
               /\ resp' = Response(mode, namespace, "error", flowCheck.kind, {})
               /\ stateByNamespace' = flowCheck.map
           ELSE
               /\ resp' = IF r.threw
                          THEN Response(mode, namespace, "error", "exception", r.calls)
                          ELSE Response(mode, namespace, "success", "ok", r.calls)
               /\ stateByNamespace' = flowCheck.map

QueryTool(namespace, query_text, top_k, use_reranking, metadata_filter, denseOutcome, sparseOutcome, rerankOk) ==
    executeQuery("query", namespace, query_text, top_k, use_reranking, metadata_filter,
                 denseOutcome, sparseOutcome, rerankOk)

QueryFastTool(namespace, query_text, top_k, metadata_filter, denseOutcome, sparseOutcome) ==
    executeQuery("query_fast", namespace, query_text, top_k, FALSE, metadata_filter,
                 denseOutcome, sparseOutcome, TRUE)

QueryDetailedTool(namespace, query_text, top_k, use_reranking, metadata_filter, denseOutcome, sparseOutcome, rerankOk) ==
    executeQuery("query_detailed", namespace, query_text, top_k, use_reranking,
                 metadata_filter, denseOutcome, sparseOutcome, rerankOk)

\* query-documents-tool.ts: the query_documents handler
QueryDocumentsTool(namespace, query_text, top_k, metadata_filter, denseOutcome, sparseOutcome, rerankOk) ==
    LET flowCheck == requireSuggested(stateByNamespace, namespace, now)
        chunkLimit == Min(QUERY_DOCUMENTS_MAX_CHUNKS, top_k * CHUNKS_PER_DOCUMENT)
        r == query(trim(query_text), chunkLimit, metadata_filter, TRUE,
                   denseOutcome, sparseOutcome, rerankOk)
    IN  /\ frameExec
        /\ IF trim(query_text) = <<>> THEN
               /\ resp' = Response("query_documents", namespace, "error", "empty_query", {})
               /\ UNCHANGED stateByNamespace
           ELSE IF ~filterError(metadata_filter).null THEN
               /\ resp' = Response("query_documents", namespace, "error",
                                   "invalid_filter", {})
               /\ UNCHANGED stateByNamespace
           ELSE IF ~flowCheck.ok THEN
               /\ resp' = Response("query_documents", namespace, "error",
                                   flowCheck.kind, {})
               /\ stateByNamespace' = flowCheck.map
           ELSE
               /\ resp' = IF r.threw
                          THEN Response("query_documents", namespace, "error",
                                        "exception", r.calls)
                          ELSE Response("query_documents", namespace, "success",
                                        "ok", r.calls)
               /\ stateByNamespace' = flowCheck.map

\* keyword_search put behind the flow gate like the execution tools
KeywordSearchToolGated(namespace, query_text, top_k, metadata_filter, sparseOutcome) ==
    LET flowCheck == requireSuggested(stateByNamespace, namespace, now)
        r == keywordSearch(trim(query_text), top_k, metadata_filter, sparseOutcome)
    IN  /\ frameExec
        /\ IF trim(query_text) = <<>> THEN
               /\ resp' = Response("keyword_search", namespace, "error", "empty_query", {})
               /\ UNCHANGED stateByNamespace
           ELSE IF ~filterError(metadata_filter).null THEN
               /\ resp' = Response("keyword_search", namespace, "error",
                                   "invalid_filter", {})
               /\ UNCHANGED stateByNamespace
           ELSE IF ~flowCheck.ok THEN
               /\ resp' = Response("keyword_search", namespace, "error",
                                   flowCheck.kind, {})
               /\ stateByNamespace' = flowCheck.map
           ELSE
               /\ resp' = IF r.threw
                          THEN Response("keyword_search", namespace, "error",
                                        "exception", r.calls)
                          ELSE Response("keyword_search", namespace, "success",
                                        "ok", r.calls)
               /\ stateByNamespace' = flowCheck.map

\* keyword-search-tool.ts: the keyword_search handler with executeKeywordSearch
KeywordSearchTool(namespace, query_text, top_k, metadata_filter, sparseOutcome) ==
    LET r == keywordSearch(trim(query_text), top_k, metadata_filter, sparseOutcome)
    IN  /\ frameExec
        /\ UNCHANGED stateByNamespace
        /\ resp' =
            IF trim(query_text) = <<>> THEN
                Response("keyword_search", namespace, "error", "empty_query", {})
            ELSE IF ~filterError(metadata_filter).null THEN
                Response("keyword_search", namespace, "error", "invalid_filter", {})
            ELSE IF r.threw THEN
                Response("keyword_search", namespace, "error", "exception", r.calls)
            ELSE
                Response("keyword_search", namespace, "success", "ok", r.calls)

-----------------------------------------------------------------------------
(* Tools that read the namespace cache.  A handler that misses the cache   *)
(* suspends at `await client.listNamespacesWithMetadata()` and resumes in  *)
(* FetchComplete; guided_query suspends a second time at its search.       *)

PendingCall(pc, tool, ns, q, f, top_k, pref) ==
    [pc |-> pc, tool |-> tool, now0 |-> now, ns |-> ns, q |-> q, filter |-> f,
     top_k |-> top_k, preferred_tool |-> pref, selected_tool |-> "", cache_hit |-> FALSE]

\* getNamespacesWithCache handing each caller a copy of the data, an array of its own
CacheReturnCopy(data, expiresAt) ==
    [kind |-> "return", ref |-> data.ref + 10, expires_at |-> expiresAt]

\* what getNamespacesWithCache returned: data.ref stands for the identity of the
\* array a fetch produced
CacheReturn(data, expiresAt) ==
    [kind |-> "return", ref |-> data.ref, expires_at |-> expiresAt]

CacheEvent(kind) == [kind |-> kind, ref |-> 0, expires_at |-> 0]

\* list-namespaces-tool.ts after getNamespacesWithCache returned
ListNamespacesCont(base, data, hit) ==
    /\ resp' = CacheResponse("list_namespaces", NoNs, "success", "ok", hit)
    /\ pending' = base
    /\ UNCHANGED <<stateByNamespace, lastMark>>

\* namespace-router-tool.ts after getNamespacesWithCache returned
NamespaceRouterCont(base, user_query, data, hit) ==
    LET ranked == rankNamespacesByQuery(trim(user_query), data.items, 3)
    IN  /\ resp' = CacheResponse("namespace_router",
                                 IF Len(ranked) > 0 THEN ranked[1].namespace ELSE NoNs,
                                 "success", "ok", hit)
        /\ pending' = base
        /\ UNCHANGED <<stateByNamespace, lastMark>>

\* suggest_query_params that never records the suggestion
SuggestQueryParamsMarkSkipped(namespace, result, user_query) == stateByNamespace

\* suggest-query-params-tool.ts: `if (result.namespace_found) markSuggested(...)`;
\* the Map afterwards
SuggestQueryParamsMark(namespace, result, user_query) ==
    IF result.namespace_found
    THEN markSuggested(stateByNamespace, namespace,
                       [recommended_tool |-> result.recommended_tool,
                        suggested_fields |-> result.suggested_fields,
                        user_query |-> trim(user_query)], now)
    ELSE stateByNamespace

\* suggest-query-params-tool.ts after getNamespacesWithCache returned
SuggestQueryParamsCont(base, namespace, user_query, data, hit) ==
    LET metadataFields == metadataOf(data.items, namespace)
        result == suggestQueryParams(metadataFields, trim(user_query))
    IN  /\ stateByNamespace' = SuggestQueryParamsMark(namespace, result, user_query)
        /\ resp' = [CacheResponse("suggest_query_params", namespace, "success", "ok", hit)
                    EXCEPT !.namespace_found = result.namespace_found]
        /\ lastMark' = IF result.namespace_found
                       THEN MapSet(lastMark, namespace,
                                   [at |-> now, by |-> "suggest",
                                    inventoryAt |-> data.fetchedAt])
                       ELSE lastMark
        /\ pending' = base

\* guided_query that never records the suggestion
GuidedQueryMarkSkipped(namespace, selectedTool, suggestion, queryText) == stateByNamespace

\* guided-query-tool.ts: the markSuggested call before the search; the Map afterwards
GuidedQueryMark(namespace, selectedTool, suggestion, queryText) ==
    markSuggested(stateByNamespace, namespace,
                  [recommended_tool |-> selectedTool,
                   suggested_fields |-> suggestion.suggested_fields,
                   user_query |-> queryText], now)

\* the tool choice that always follows the suggestion
selectToolIgnoresPreference(preferred_tool, suggestion) == suggestion.recommended_tool

\* guided-query-tool.ts: preferred_tool === 'auto' ? suggestion.recommended_tool
\* : preferred_tool
selectTool(preferred_tool, suggestion) ==
    IF preferred_tool = "auto" THEN suggestion.recommended_tool ELSE preferred_tool

\* guided-query-tool.ts after getNamespacesWithCache returned, up to the await
\* of the search
GuidedQueryCont(base, p, data, hit) ==
    LET queryText == trim(p.q)
        ranked == rankNamespacesByQuery(queryText, data.items, 3)
        namespace == IF ~p.ns.null THEN p.ns.v
                     ELSE IF Len(ranked) > 0 THEN ranked[1].namespace ELSE NoNs
        suggestion == suggestQueryParams(metadataOf(data.items, namespace), queryText)
        selectedTool == selectTool(p.preferred_tool, suggestion)
    IN  IF namespace = <<>> THEN
            /\ resp' = CacheResponse("guided_query", NoNs, "error", "no_namespace", hit)
            /\ pending' = base
            /\ UNCHANGED <<stateByNamespace, lastMark>>
        ELSE IF ~suggestion.namespace_found THEN
            /\ resp' = CacheResponse("guided_query", namespace, "error", "not_found", hit)
            /\ pending' = base
            /\ UNCHANGED <<stateByNamespace, lastMark>>
        ELSE
            /\ stateByNamespace' =
                   GuidedQueryMark(namespace, selectedTool, suggestion, queryText)
            /\ lastMark' = MapSet(lastMark, namespace,
                                  [at |-> now, by |-> "guided",
                                   inventoryAt |-> data.fetchedAt])
            /\ pending' = Append(base,
                   [p EXCEPT !.pc = "exec", !.now0 = 0, !.ns = Some(namespace),
                             !.preferred_tool = "",
                             !.selected_tool = selectedTool, !.cache_hit = hit])
            /\ UNCHANGED resp

Continue(base, p, data, hit) ==
    CASE p.tool = "list_namespaces" -> ListNamespacesCont(base, data, hit)
      [] p.tool = "namespace_router" -> NamespaceRouterCont(base, p.q, data, hit)
      [] p.tool = "suggest_query_params" ->
             SuggestQueryParamsCont(base, p.ns.v, p.q, data, hit)
      [] p.tool = "guided_query" -> GuidedQueryCont(base, p, data, hit)

\* getNamespacesWithCache that answers a miss from the slot, without a fetch
GetNamespacesWithCacheNoFetch(p) ==
    /\ Continue(pending, p, [ref |-> 0, fetchedAt |-> now, items |-> <<>>], TRUE)
    /\ lastCache' = [kind |-> "return", ref |-> 0, expires_at |-> 0]
    /\ UNCHANGED <<now, ticks, namespacesCache, backend, fetches, fin, fout>>

\* getNamespacesWithCache called by handler p: a hit returns at once, a miss
\* suspends the handler
GetNamespacesWithCache(p) ==
    IF cacheIsFresh(namespacesCache, now) THEN
        /\ Continue(pending, p, namespacesCache.data, TRUE)
        /\ lastCache' = CacheReturn(namespacesCache.data, namespacesCache.expiresAt)
        /\ UNCHANGED <<now, ticks, namespacesCache, backend, fetches, fin, fout>>
    ELSE
        /\ pending' = Append(pending, p)
        /\ UNCHANGED <<now, ticks, stateByNamespace, namespacesCache, backend, fetches,
                       resp, lastMark, lastCache, fin, fout>>

\* the fetch of a suspended getNamespacesWithCache returns
FetchComplete(i, statsOk) ==
    /\ i \in 1..Len(pending)
    /\ pending[i].pc = "fetch"
    /\ LET p == pending[i]
           data == [ref |-> fetches + 1, fetchedAt |-> now,
                    items |-> listNamespacesWithMetadata(statsOk, backend)]
           entry == cacheEntryAfterFetch(data, p.now0)
       IN  /\ namespacesCache' = entry
           /\ fetches' = fetches + 1
           /\ lastCache' = CacheReturn(data, entry.expiresAt)
           /\ Continue(RemoveAt(pending, i), p, data, FALSE)
    /\ UNCHANGED <<now, ticks, backend, fin, fout>>

\* invalidateNamespacesCache()
InvalidateNamespacesCache ==
    /\ namespacesCache' = Null
    /\ lastCache' = CacheEvent("invalidate")
    /\ UNCHANGED <<now, ticks, stateByNamespace, backend, fetches, pending, resp,
                   lastMark, fin, fout>>

frameError == UNCHANGED <<now, ticks, stateByNamespace, namespacesCache, backend, fetches,
                          pending, lastMark, lastCache, fin, fout>>

ListNamespacesTool ==
    GetNamespacesWithCache(PendingCall("fetch", "list_namespaces", Null, <<>>, Null, 0, ""))

NamespaceRouterTool(user_query) ==
    IF trim(user_query) = <<>> THEN
        /\ resp' = Response("namespace_router", NoNs, "error", "empty_query", {})
        /\ frameError
    ELSE GetNamespacesWithCache(
             PendingCall("fetch", "namespace_router", Null, user_query, Null, 0, ""))

SuggestQueryParamsTool(namespace, user_query) ==
    IF trim(user_query) = <<>> THEN
        /\ resp' = Response("suggest_query_params", namespace, "error", "empty_query", {})
        /\ frameError
    ELSE GetNamespacesWithCache(
             PendingCall("fetch", "suggest_query_params", Some(namespace), user_query,
                         Null, 0, ""))

\* guided_query without the validation of metadata_filter
GuidedQueryToolFilterUnchecked(inputNamespace, user_query, metadata_filter, top_k, preferred_tool) ==
    IF trim(user_query) = <<>> THEN
        /\ resp' = Response("guided_query", NoNs, "error", "empty_query", {})
        /\ frameError
    ELSE GetNamespacesWithCache(
             PendingCall("fetch", "guided_query", inputNamespace, user_query,
                         metadata_filter, top_k, preferred_tool))

GuidedQueryTool(inputNamespace, user_query, metadata_filter, top_k, preferred_tool) ==
    IF trim(user_query) = <<>> THEN
        /\ resp' = Response("guided_query", NoNs, "error", "empty_query", {})
        /\ frameError
    ELSE IF ~filterError(metadata_filter).null THEN
        /\ resp' = Response("guided_query", NoNs, "error", "invalid_filter", {})
        /\ frameError
    ELSE GetNamespacesWithCache(
             PendingCall("fetch", "guided_query", inputNamespace, user_query,
                         metadata_filter, top_k, preferred_tool))

\* guided-query-tool.ts: the search of a suspended guided_query returns
GuidedQueryExecComplete(i, denseOutcome, sparseOutcome, rerankOk) ==
    /\ i \in 1..Len(pending)
    /\ pending[i].pc = "exec"
    /\ LET p == pending[i]
           r == IF p.selected_tool = "count"
                THEN count(trim(p.q), p.filter, denseOutcome)
                ELSE query(trim(p.q), p.top_k, p.filter, p.selected_tool # "query_fast",
                           denseOutcome, sparseOutcome, rerankOk)
           base == IF r.threw
                   THEN Response("guided_query", p.ns.v, "error", "exception", r.calls)
                   ELSE Response("guided_query", p.ns.v, "success", "ok", r.calls)
       IN  /\ resp' = [base EXCEPT !.cache_hit = p.cache_hit,
                                   !.selected_tool = p.selected_tool,
                                   !.namespace_found = TRUE]
           /\ pending' = RemoveAt(pending, i)
    /\ UNCHANGED <<now, ticks, stateByNamespace, namespacesCache, backend, fetches,
                   lastMark, lastCache, fin, fout>>

-----------------------------------------------------------------------------
(* The server: tool calls arrive in any order and the clock advances.       *)

NoInput == [fn |-> "none"]

PendingFetches == Cardinality({i \in 1..Len(pending) : pending[i].pc = "fetch"})

\* bounds on the handlers in flight and on the fetches of a behaviour
RoomToSuspend == Len(pending) < MaxPending
FetchBudget == fetches + PendingFetches < MaxFetches
CanCallCached == cacheIsFresh(namespacesCache, now) \/ (RoomToSuspend /\ FetchBudget)
CanCallGuided == RoomToSuspend /\ (cacheIsFresh(namespacesCache, now) \/ FetchBudget)

\* the outcomes that matter to a call: one when the call stops before the backend
OutcomesFor(namespace, a) ==
    IF /\ trim(a.q) # <<>>
       /\ filterError(a.f).null
       /\ requireSuggested(stateByNamespace, namespace, now).ok
    THEN ServerOutcomes
    ELSE {CHOOSE o \in ServerOutcomes : o.dense = Fails /\ o.sparse = Fails}

SparseOutcomesFor(a) ==
    IF trim(a.q) # <<>> /\ filterError(a.f).null
    THEN {o.sparse : o \in ServerOutcomes}
    ELSE {Fails}

InitServer ==
    /\ now = 0
    /\ ticks = 0
    /\ stateByNamespace = EmptyMap
    /\ namespacesCache = Null
    /\ fetches = 0
    /\ pending = <<>>
    /\ resp = NoResponse
    /\ lastMark = EmptyMap
    /\ lastCache = CacheEvent("none")

Init ==
    /\ InitServer
    /\ backend \in Inventories
    /\ fin = NoInput
    /\ fout = NoInput

\* one step of the server with the previous response delivered
ServerStep ==
    \/ \E d \in Steps : Tick(d)
    \/ \E n \in NsArgs, a \in ExecArgs : \E o \in OutcomesFor(n, a) :
           CountTool(n, a.q, a.f, o.dense)
    \/ \E n \in NsArgs, a \in ExecArgs, k \in TopKArgs, u \in BOOLEAN :
         \E o \in OutcomesFor(n, a) :
           QueryTool(n, a.q, k, u, a.f, o.dense, o.sparse, o.rerankOk)
    \/ \E n \in NsArgs, a \in ExecArgs, k \in TopKArgs : \E o \in OutcomesFor(n, a) :
           QueryFastTool(n, a.q, k, a.f, o.dense, o.sparse)
    \/ \E n \in NsArgs, a \in ExecArgs, k \in TopKArgs, u \in BOOLEAN :
         \E o \in OutcomesFor(n, a) :
           QueryDetailedTool(n, a.q, k, u, a.f, o.dense, o.sparse, o.rerankOk)
    \/ \E n \in NsArgs, a \in ExecArgs, k \in DocTopKArgs : \E o \in OutcomesFor(n, a) :
           QueryDocumentsTool(n, a.q, k, a.f, o.dense, o.sparse, o.rerankOk)
    \/ \E n \in NsArgs, a \in ExecArgs, k \in TopKArgs :
         \E s \in SparseOutcomesFor(a) : KeywordSearchTool(n, a.q, k, a.f, s)
    \/ \E n \in NsArgs, q \in SuggestQueries :
           CanCallCached /\ SuggestQueryParamsTool(n, q)
    \/ \E g \in GuidedArgs, k \in TopKArgs :
           CanCallGuided /\ GuidedQueryTool(g.ns, g.q, g.f, k, g.pref)
    \/ \E i \in 1..MaxPending, ok \in BOOLEAN : FetchComplete(i, ok)
    \/ \E i \in 1..MaxPending, o \in ServerOutcomes :
           GuidedQueryExecComplete(i, o.dense, o.sparse, o.rerankOk)

Next ==
    \/ Deliver
    \/ resp = NoResponse /\ ServerStep

Spec == Init /\ [][Next]_vars

-----------------------------------------------------------------------------
(* Properties of the flow gate, checked under Spec *)

GateKinds == {"gate_missing", "gate_expired"}

\* a handler returns in this step, and it is one of the execution tools
ExecToolReturns == resp = NoResponse /\ resp'.tool \in ExecTools

\* the Map holds an entry for n that is at most 30 minutes old
EntryValid(n) ==
    /\ n \in DOMAIN stateByNamespace
    /\ now - stateByNamespace[n].updatedAt <= 30 * 60 * 1000

\* n was marked, and at most 30 minutes ago
MarkedWithinTtl(n) ==
    /\ n \in DOMAIN lastMark
    /\ now - lastMark[n].at <= 30 * 60 * 1000

(* C1: count, query, query_fast, query_detailed and query_documents for a  *)
(* namespace reach the backend only if the flow gate holds an entry for it *)
(* that is not expired (now - updatedAt <= 30 minutes); otherwise the call *)
(* returns an error response and issues no backend search.                 *)
C1_ExecToolsBehindGate ==
    [][ExecToolReturns =>
          /\ resp'.calls # {} => EntryValid(resp'.ns)
          /\ ~EntryValid(resp'.ns) => resp'.status = "error" /\ resp'.calls = {}]_vars

\* query_documents was rejected because the entry had expired
C1_Witness ==
    /\ resp.tool = "query_documents"
    /\ resp.kind = "gate_expired"
    /\ resp.calls = {}

(* C2: requireSuggested fails for a namespace never marked; it succeeds    *)
(* from the mark on; once more than 30 minutes have passed since the last  *)
(* mark it fails, the failing check removes the entry, and checks keep     *)
(* failing (the entry stays absent) until the namespace is marked again.   *)
C2_GateFollowsLastMark ==
    /\ [](\A n \in NsArgs :
            requireSuggested(stateByNamespace, n, now).ok <=> MarkedWithinTtl(n))
    /\ [][ExecToolReturns /\ resp'.kind \in GateKinds =>
            /\ resp'.ns \notin DOMAIN stateByNamespace'
            /\ ~requireSuggested(stateByNamespace', resp'.ns, now').ok
            /\ lastMark' = lastMark]_vars

\* an entry was set, expired, was removed by a failing check, and a later check
\* finds it missing
C2_Witness ==
    /\ resp.kind = "gate_missing"
    /\ resp.ns \in DOMAIN lastMark
    /\ resp.ns \notin DOMAIN stateByNamespace

\* the last mark of n was made by this tool, at most 30 minutes ago
MarkedBy(n, tool) == MarkedWithinTtl(n) /\ lastMark[n].by = tool

(* C8: once guided_query has resolved a namespace found in the cached      *)
(* inventory, the flow gate for it is satisfied: an execution tool called  *)
(* for it within the next 30 minutes is not rejected by the gate, and that *)
(* holds whether guided_query's own backend call succeeded or threw.       *)
C8_GuidedQuerySatisfiesGate ==
    /\ [](\A n \in NsArgs :
            MarkedBy(n, "guided") => requireSuggested(stateByNamespace, n, now).ok)
    /\ [](resp.tool = "guided_query" /\ resp.kind \in {"ok", "exception"} =>
            /\ resp.ns \in DOMAIN lastMark
            /\ MarkedWithinTtl(resp.ns) =>
                   requireSuggested(stateByNamespace, resp.ns, now).ok)
    /\ [][ExecToolReturns /\ MarkedBy(resp'.ns, "guided") =>
            resp'.kind \notin GateKinds]_vars

\* guided_query's search threw, and the gate of the namespace it resolved is open
C8_Witness ==
    /\ resp.tool = "guided_query"
    /\ resp.kind = "exception"
    /\ MarkedBy(resp.ns, "guided")
    /\ requireSuggested(stateByNamespace, resp.ns, now).ok

\* a handler returns in this step, and it is suggest_query_params with status success
SuggestReturnsSuccess ==
    /\ resp = NoResponse
    /\ resp'.tool = "suggest_query_params"
    /\ resp'.status = "success"

(* C9, as the claim states it: after suggest_query_params(N, q) returns a  *)
(* success response, the flow gate for N is satisfied.                     *)
C9_Original ==
    [][SuggestReturnsSuccess =>
          requireSuggested(stateByNamespace', resp'.ns, now').ok]_vars

(* C9, amended: after suggest_query_params(N, q) returns a success         *)
(* response with namespace_found = true, the flow gate for N is satisfied: *)
(* an execution tool for N called within the next 30 minutes is not        *)
(* rejected by the gate.  A success response with namespace_found = false  *)
(* leaves the gate as it was.                                              *)
C9_SuggestFoundSatisfiesGate ==
    /\ [][SuggestReturnsSuccess =>
            IF resp'.namespace_found
            THEN /\ requireSuggested(stateByNamespace', resp'.ns, now').ok
                 /\ lastMark'[resp'.ns].at = now'
                 /\ lastMark'[resp'.ns].by = "suggest"
            ELSE stateByNamespace' = stateByNamespace]_vars
    /\ [](\A n \in NsArgs :
            MarkedBy(n, "suggest") => requireSuggested(stateByNamespace, n, now).ok)
    /\ [][ExecToolReturns /\ MarkedBy(resp'.ns, "suggest") =>
            resp'.kind \notin GateKinds]_vars

\* an execution tool ran its search exactly 30 minutes after suggest_query_params
\* found the namespace
C9_Witness ==
    /\ resp.tool \in ExecTools
    /\ resp.calls # {}
    /\ MarkedBy(resp.ns, "suggest")
    /\ now - lastMark[resp.ns].at = 30 * 60 * 1000

\* a handler returns in this step, and it is keyword_search
KeywordSearchReturns == resp = NoResponse /\ resp'.tool = "keyword_search"

(* C10: keyword_search never consults or changes the flow gate: whether a  *)
(* suggestion for the namespace is absent, valid or expired, a call with a *)
(* non-empty query and a valid filter proceeds to the backend search, no   *)
(* call is rejected by the gate, and every flow-gate entry is left as it   *)
(* was.                                                                    *)
C10_KeywordSearchIgnoresGate ==
    [][KeywordSearchReturns =>
          /\ stateByNamespace' = stateByNamespace
          /\ resp'.kind \notin GateKinds
          /\ resp'.kind \in {"empty_query", "invalid_filter"} \/ resp'.calls # {}]_vars

\* keyword_search searched for a namespace whose entry has expired, and the
\* entry is still there
C10_Witness ==
    /\ resp.tool = "keyword_search"
    /\ resp.calls # {}
    /\ resp.ns \in DOMAIN stateByNamespace
    /\ ~EntryValid(resp.ns)

-----------------------------------------------------------------------------
(* The namespace cache alone: list_namespaces and namespace_router read    *)
(* it, invalidateNamespacesCache() empties it, the backend's inventory     *)
(* changes, the clock advances.                                            *)

CacheStep ==
    \/ \E d \in Steps : Tick(d)
    \/ \E inv \in Inventories : BackendChange(inv)
    \/ CanCallCached /\ ListNamespacesTool
    \/ \E q \in SuggestQueries : CanCallCached /\ NamespaceRouterTool(q)
    \/ \E i \in 1..MaxPending, ok \in BOOLEAN : FetchComplete(i, ok)
    \/ InvalidateNamespacesCache

NextCache ==
    \/ Deliver
    \/ resp = NoResponse /\ CacheStep

SpecCache == Init /\ [][NextCache]_vars

\* list_namespaces returns at once, without a fetch
ReturnsWithoutFetch ==
    /\ pending' = pending
    /\ fetches' = fetches
    /\ resp'.tool = "list_namespaces"

\* list_namespaces suspends in the fetch of getNamespacesWithCache
SuspendsInFetch ==
    /\ Len(pending') = Len(pending) + 1
    /\ pending'[Len(pending')].pc = "fetch"
    /\ resp' = resp

(* C3: with calls made one after another, the first getNamespacesWithCache *)
(* returns cache_hit = false; a call made before the expiresAt of the      *)
(* previous return returns cache_hit = true with the identical data and    *)
(* makes no backend call; the first call after invalidateNamespacesCache() *)
(* returns cache_hit = false and fetches from the backend again.           *)
C3_CacheHitMissSequence ==
    /\ [][pending = <<>> /\ ListNamespacesTool =>
            /\ lastCache.kind \in {"none", "invalidate"} => SuspendsInFetch
            /\ lastCache.kind = "return" /\ now < lastCache.expires_at =>
                   /\ ReturnsWithoutFetch
                   /\ resp'.cache_hit
                   /\ lastCache'.ref = lastCache.ref
                   /\ namespacesCache'.data = namespacesCache.data]_vars
    /\ [][(\E i \in 1..Len(pending), ok \in BOOLEAN : FetchComplete(i, ok)) =>
            /\ ~resp'.cache_hit
            /\ fetches' = fetches + 1
            /\ lastCache'.kind = "return"
            /\ lastCache'.ref \notin {lastCache.ref}]_vars

\* at time 0 a second fetch has returned: the call after an invalidation missed
C3_Witness ==
    /\ resp.tool = "list_namespaces"
    /\ ~resp.cache_hit
    /\ fetches = 2
    /\ now = 0

-----------------------------------------------------------------------------
(* PineconeClient.query on its own: one call per behaviour, its arguments  *)
(* and what the indexes and the rerank model do drawn from the sets below. *)

HA == [_id |-> "a", _score |-> 9, fields |-> [chunk_text |-> StrV("ta"), title |-> StrV("A")]]
HB == [_id |-> "b", _score |-> 7, fields |-> [chunk_text |-> StrV("tb")]]
HC == [_id |-> "c", _score |-> 5, fields |-> [chunk_text |-> StrV("tc")]]
HD == [_id |-> "d", _score |-> 6, fields |-> [chunk_text |-> StrV("td")]]
HA_HI == [_id |-> "a", _score |-> 10, fields |-> [chunk_text |-> StrV("ta2")]]
HA_LO == [_id |-> "a", _score |-> 8, fields |-> [chunk_text |-> StrV("ta3")]]

\* n hits with ids "1" .. "n", best first
ManyHits(n) ==
    ToArray([i \in 1..n |->
        [_id |-> ToString(i), _score |-> 1000 - i, fields |-> [chunk_text |-> StrV("t")]]])

QueryDense == {Fails, Hits(<<>>), Hits(<<HA, HB, HC>>), Hits(ManyHits(MAX_TOP_K + 1))}
QuerySparse == {Fails, Hits(<<>>), Hits(<<HA_HI, HD>>), Hits(<<HA_LO, HD>>)}
QueryTopK == {1, 2, 4, MAX_TOP_K + 1}

QueryInputs ==
    [fn : {"query"}, q : {Q_LIST}, topK : QueryTopK, useReranking : BOOLEAN,
     dense : QueryDense, sparse : QuerySparse, rerankOk : BOOLEAN]

InitQuery ==
    /\ InitServer
    /\ backend = <<>>
    /\ fin \in QueryInputs
    /\ fout = NoInput

QueryCall ==
    /\ fin.fn = "query"
    /\ fout = NoInput
    /\ fout' = [fn |-> "query",
                r |-> query(fin.q, fin.topK, Null, fin.useReranking,
                            fin.dense, fin.sparse, fin.rerankOk)]
    /\ UNCHANGED <<serverVars, fin>>

NextQuery == QueryCall

SpecQuery == InitQuery /\ [][NextQuery]_vars

\* the hits an index returned to the call: at most topK (never more than 100) of
\* what it holds, none when its search failed
Returned(outcome) ==
    IF outcome.fails THEN <<>>
    ELSE SubSeq(outcome.hits, 1, Min(Min(fin.topK, 100), Len(outcome.hits)))

HitIds(hits) == {hits[i]._id : i \in 1..Len(hits)}
DocumentIds(documents) == {documents[i].id : i \in 1..Len(documents)}

(* C4: in query() the dense and the sparse search are independent: when    *)
(* exactly one of them fails the call succeeds and its results are built   *)
(* from the other one's hits; the call fails, with the combined-failure    *)
(* error, if and only if both searches fail.                               *)
C4_PartialFailureTolerated ==
    fout.fn = "query" =>
        /\ fout.r.threw <=> (fin.dense.fails /\ fin.sparse.fails)
        /\ fout.r.threw =>
               fout.r.error =
                   "Hybrid search failed: both dense and sparse index searches failed."
        /\ fin.dense.fails /\ ~fin.sparse.fails =>
               DocumentIds(fout.r.documents) = HitIds(Returned(fin.sparse))
        /\ fin.sparse.fails /\ ~fin.dense.fails =>
               DocumentIds(fout.r.documents) = HitIds(Returned(fin.dense))

\* the dense search failed and the call returned the two sparse hits
C4_Witness ==
    /\ fout.fn = "query"
    /\ fin.dense.fails
    /\ ~fout.r.threw
    /\ DocumentIds(fout.r.documents) = {"a", "d"}

(* C5: for a query() call with reranking requested in which at least one   *)
(* index search succeeded, a failure of the reranker does not fail the     *)
(* call: the result is the first min(topK, number of merged hits) merged   *)
(* hits in merged (score-descending) order, each with reranked = false,    *)
(* topK being the value after the clamp to 100.                            *)
C5_RerankFailureFallsBack ==
    fout.fn = "query" /\ fin.useReranking /\ ~fin.rerankOk
                     /\ ~(fin.dense.fails /\ fin.sparse.fails) =>
        LET merged == mergeResults(Returned(fin.dense), Returned(fin.sparse))
            n == Min(Min(fin.topK, 100), Len(merged))
            docs == fout.r.documents
        IN  /\ ~fout.r.threw
            /\ Len(docs) = n
            /\ \A i \in 1..n :
                   /\ docs[i].id = merged[i]._id
                   /\ docs[i].score = merged[i]._score
                   /\ docs[i].content = merged[i].chunk_text
                   /\ docs[i].reranked = FALSE
            /\ \A i \in 1..n, j \in 1..n : i < j => docs[i].score >= docs[j].score

\* the reranker failed with more merged hits than topK: the two best came back
C5_Witness ==
    /\ fout.fn = "query"
    /\ fin.useReranking /\ ~fin.rerankOk
    /\ fin.topK = 2
    /\ ~fin.dense.fails /\ Len(fin.dense.hits) = 3 /\ fin.sparse.fails
    /\ Len(fout.r.documents) = 2
    /\ fout.r.documents[1].id = "a"
    /\ ~fout.r.documents[1].reranked

-----------------------------------------------------------------------------
(* PineconeClient.count on its own: one call per behaviour over the hits   *)
(* the dense index holds, described by their number and their shape.       *)

\* the i-th hit the dense index holds, for each shape of identifier fields
CountHit(i, shape) ==
    [_id |-> ToString(i),
     _score |-> 1,
     fields |->
        CASE shape = "none" -> [x \in {} |-> StrV("")]
          [] shape = "number_and_url" ->
                [document_number |-> StrV(ToString(i % 3)), url |-> StrV(ToString(i % 2))]
          [] shape = "numeric_number" ->
                [document_number |-> NumV(i), url |-> StrV(ToString(i % 2))]
          [] shape = "mixed" ->
                IF i % 2 = 1 THEN [document_number |-> StrV("k")]
                ELSE [url |-> NumV(i), doc_id |-> StrV("k")]
          [] shape = "not_strings" ->
                [document_number |-> NumV(1), url |-> NumV(1), doc_id |-> NumV(1)]
          [] shape = "id_collides" ->
                IF i % 2 = 1 THEN [x \in {} |-> StrV("")]
                ELSE [doc_id |-> StrV(ToString(i - 1))]]

CountHits(n, shape) == ToArray([i \in 1..n |-> CountHit(i, shape)])

CountShapes ==
    {"none", "number_and_url", "numeric_number", "mixed", "not_strings", "id_collides"}
CountSizes == 0..7 \cup {COUNT_TOP_K - 1, COUNT_TOP_K, COUNT_TOP_K + 1}

CountInputs ==
    [fn : {"count"}, q : {Q_COUNT}, fails : {FALSE}, n : CountSizes, shape : CountShapes]
        \cup [fn : {"count"}, q : {Q_COUNT, Q_BLANK}, fails : {TRUE}, n : {0}, shape : {"none"}]

CountOutcome(in) == IF in.fails THEN Fails ELSE Hits(CountHits(in.n, in.shape))

InitCount ==
    /\ InitServer
    /\ backend = <<>>
    /\ fin \in CountInputs
    /\ fout = NoInput

CountCall ==
    /\ fin.fn = "count"
    /\ fout = NoInput
    /\ fout' = [fn |-> "count", r |-> count(fin.q, Null, CountOutcome(fin))]
    /\ UNCHANGED <<serverVars, fin>>

NextCount == CountCall

SpecCount == InitCount /\ [][NextCount]_vars

\* the key of a hit: the value of the first of document_number, url, doc_id that
\* holds a string, the hit id when none does
KeyOfHit(hit) ==
    LET names == <<"document_number", "url", "doc_id">>
        strings == {k \in 1..3 : /\ names[k] \in DOMAIN hit.fields
                                 /\ hit.fields[names[k]].t = "string"}
    IN  IF strings = {} THEN hit._id
        ELSE hit.fields[names[CHOOSE k \in strings : \A m \in strings : k <= m]].v

(* C6: count() returns count = the number of distinct keys over the hits   *)
(* the dense index returned, the key of a hit being the first string-      *)
(* valued field among document_number, url, doc_id and the hit id when     *)
(* there is none; truncated is true exactly when at least 10,000 hits were *)
(* returned.                                                               *)
C6_CountDistinctKeys ==
    fout.fn = "count" /\ ~fin.fails =>
        LET held == CountHits(fin.n, fin.shape)
            raw == SubSeq(held, 1, Min(10000, Len(held)))
        IN  /\ ~fout.r.threw
            /\ fout.r.count = Cardinality({KeyOfHit(raw[i]) : i \in 1..Len(raw)})
            /\ fout.r.truncated <=> (Len(raw) >= 10000)

\* 10,000 hits came back carrying three document numbers: count 3, truncated
C6_Witness ==
    /\ fout.fn = "count"
    /\ fin.n = 10000
    /\ fin.shape = "number_and_url"
    /\ fout.r.count = 3
    /\ fout.r.truncated

-----------------------------------------------------------------------------
(* validateMetadataFilter on its own: one call per behaviour over the      *)
(* filters below.                                                          *)

FilterLeaves == {JStr, JNum, JNull, JArr(<<JStr>>), JArr(<<JObj(<<>>)>>)}
FilterOperatorKeys == {K_EQ, K_IN, K_GTE, K_REGEX, K_OR}

\* { key: leaf }
OneOperator == {JObj(<< <<k, v>> >>) : k \in FilterOperatorKeys, v \in FilterLeaves}

\* { key1: 1, key2: "s" }
TwoOperators ==
    {JObj(<< <<k[1], JNum>>, <<k[2], JStr>> >>) :
        k \in {<<K_GTE, K_REGEX>>, <<K_REGEX, K_GTE>>, <<K_REGEX, K_OR>>,
                <<K_OR, K_REGEX>>, <<K_GTE, K_EQ>>}}

FilterInputs ==
    \* { year: value }
    {JObj(<< <<K_YEAR, v>> >>) : v \in FilterLeaves \cup OneOperator \cup TwoOperators}
    \* { $key: value }
    \cup {JObj(<< <<k, v>> >>) : k \in {K_EQ, K_REGEX, K_OR}, v \in FilterLeaves}
    \* { $or: [ { year: { key: 1 } } ] }
    \cup {JObj(<< <<K_OR, JArr(<< JObj(<< <<K_YEAR, JObj(<< <<k, JNum>> >>)>> >>) >>)>> >>) :
              k \in {K_GTE, K_REGEX}}
    \* { year: { tags: operators } }
    \cup {JObj(<< <<K_YEAR, JObj(<< <<K_TAGS, o>> >>)>> >>) : o \in OneOperator}
    \* { year: { $gte: 1 }, tags: operators }
    \cup {JObj(<< <<K_YEAR, JObj(<< <<K_GTE, JNum>> >>)>>, <<K_TAGS, o>> >>) :
              o \in OneOperator \cup TwoOperators}

InitFilter ==
    /\ InitServer
    /\ backend = <<>>
    /\ fin \in [fn : {"filter"}, filter : FilterInputs]
    /\ fout = NoInput

FilterCall ==
    /\ fin.fn = "filter"
    /\ fout = NoInput
    /\ fout' = [fn |-> "filter", r |-> validateMetadataFilter(fin.filter)]
    /\ UNCHANGED <<serverVars, fin>>

NextFilter == FilterCall

SpecFilter == InitFilter /\ [][NextFilter]_vars

\* every key of a JSON value, at any depth
RECURSIVE KeysOf(_)
KeysOf(value) ==
    IF value.t = "object" THEN
        UNION {{value.entries[i][1]} \cup KeysOf(value.entries[i][2]) :
                  i \in 1..Len(value.entries)}
    ELSE IF value.t = "array" THEN
        UNION {KeysOf(value.items[i]) : i \in 1..Len(value.items)}
    ELSE {}

\* the '$' keys of a filter that are none of the eight operators
UnsupportedKeys(filter) ==
    {key \in KeysOf(filter) :
        /\ startsWithDollar(key)
        /\ key \notin {K_EQ, K_NE, K_GT, K_GTE, K_LT, K_LTE, K_IN, K_NIN}}

(* C7: for every filter that contains, at any depth including the top      *)
(* level, a key beginning with '$' that is not one of $eq, $ne, $gt, $gte, *)
(* $lt, $lte, $in, $nin, validateMetadataFilter returns a non-null message *)
(* that names that key.                                                    *)
C7_UnsupportedOperatorNamed ==
    fout.fn = "filter" =>
        \A key \in UnsupportedKeys(fin.filter) :
            /\ ~fout.r.null
            /\ includes(fout.r.v, key)

-----------------------------------------------------------------------------
(* guided_query on its own: every call of a behaviour carries the same     *)
(* arguments, fin; the first call finds the namespace cache empty, later   *)
(* calls find what the earlier fetches stored.                             *)

GuidedTools == {"count", "query_fast", "query_detailed"}

GuidedInputs ==
    [fn : {"guided_query"},
     ns : {Null, Some(NS_ML), Some(NS_WG), Some(<<>>)},
     q : Queries,
     f : FilterArgs,
     top_k : TopKArgs,
     pref : {"auto"} \cup GuidedTools]

InitGuided ==
    /\ InitServer
    /\ backend \in Inventories
    /\ fin \in GuidedInputs
    /\ fout = NoInput

GuidedCall ==
    /\ fin.fn = "guided_query"
    /\ CanCallGuided
    /\ GuidedQueryTool(fin.ns, fin.q, fin.f, fin.top_k, fin.pref)

GuidedStep ==
    \/ GuidedCall
    \/ \E i \in 1..MaxPending, ok \in BOOLEAN : FetchComplete(i, ok)
    \/ \E i \in 1..MaxPending, o \in ServerOutcomes :
           GuidedQueryExecComplete(i, o.dense, o.sparse, o.rerankOk)

NextGuided ==
    \/ Deliver
    \/ resp = NoResponse /\ GuidedStep

SpecGuided == InitGuided /\ [][NextGuided]_vars

\* guided_query finishes resolving its namespace in this step: it answers one of
\* the two namespace errors, or it goes on to its search
GuidedNamespaceError ==
    /\ resp = NoResponse
    /\ resp'.tool = "guided_query"
    /\ resp'.kind \in {"no_namespace", "not_found"}

GuidedGoesToSearch ==
    /\ pending' # pending
    /\ Len(pending') >= Len(pending)
    /\ Len(pending') > 0
    /\ pending'[Len(pending')].pc = "exec"

\* the inventory the resolving call got from the cache, and the names in it
InventoryUsed == namespacesCache.data.items
NamesIn(inventory) == {inventory[i].namespace : i \in 1..Len(inventory)}

\* the namespace the call selects: the caller's, else the top-ranked of the inventory
SelectedNamespace(inventory) ==
    IF ~fin.ns.null THEN fin.ns
    ELSE IF inventory = <<>> THEN Null
    ELSE Some(rankNamespacesByQuery(trim(fin.q), inventory, 3)[1].namespace)

(* C11: guided_query selects the caller's namespace when one is given,     *)
(* else the top-ranked namespace of the cached inventory; it answers the   *)
(* 'no namespace available' error when the namespace is omitted and the    *)
(* inventory is empty, the 'namespace not found' error when the selected   *)
(* namespace is absent from the inventory, and issues no backend search in *)
(* either case.                                                            *)
C11_GuidedNamespaceSelection ==
    [][(GuidedNamespaceError \/ GuidedGoesToSearch) =>
          LET selected == SelectedNamespace(InventoryUsed')
          IN  /\ selected.null =>
                    GuidedNamespaceError /\ resp'.kind = "no_namespace"
              /\ ~selected.null /\ selected.v \notin NamesIn(InventoryUsed') =>
                    /\ GuidedNamespaceError
                    /\ resp'.kind = "not_found"
                    /\ resp'.ns = selected.v
              /\ ~selected.null /\ selected.v \in NamesIn(InventoryUsed') =>
                    /\ GuidedGoesToSearch
                    /\ pending'[Len(pending')].ns = selected
              /\ GuidedNamespaceError =>
                    /\ resp'.calls = {}
                    /\ ~GuidedGoesToSearch
                    /\ UNCHANGED stateByNamespace]_vars

\* the tool guided_query is to run: the caller's unless 'auto', then the one the
\* suggestion engine recommends for the selected namespace
ToolToRun(inventory) ==
    IF fin.pref # "auto" THEN fin.pref
    ELSE suggestQueryParams(metadataOf(inventory, SelectedNamespace(inventory).v),
                            trim(fin.q)).recommended_tool

HybridSearches ==
    {SearchCall("dense", fin.top_k, fin.f), SearchCall("sparse", fin.top_k, fin.f)}

(* C12: guided_query executes exactly one tool: preferred_tool when it is  *)
(* not 'auto', otherwise the suggestion engine's recommended tool; 'count' *)
(* performs only the dense count search, 'query_fast' runs the hybrid      *)
(* query with reranking off, 'query_detailed' runs it with reranking on    *)
(* (the rerank model is called whenever the searches returned a hit), and  *)
(* decision_trace.selected_tool names the tool that ran.                   *)
C12_GuidedRunsOneTool ==
    /\ [][GuidedGoesToSearch =>
             pending'[Len(pending')].selected_tool = ToolToRun(InventoryUsed')]_vars
    /\ [][\A i \in 1..MaxPending, o \in ServerOutcomes :
             GuidedQueryExecComplete(i, o.dense, o.sparse, o.rerankOk) =>
                LET tool == pending[i].selected_tool
                    calls == resp'.calls
                IN  /\ tool \in GuidedTools
                    /\ resp'.selected_tool = tool
                    /\ tool = "count" =>
                           calls = {SearchCall("dense", COUNT_TOP_K, fin.f)}
                    /\ tool = "query_fast" => calls = HybridSearches
                    /\ tool = "query_detailed" =>
                           /\ HybridSearches \subseteq calls
                           /\ calls \subseteq HybridSearches \cup {RerankCall(fin.top_k)}
                           /\ (o.dense # Fails /\ o.dense.hits # <<>>) =>
                                  RerankCall(fin.top_k) \in calls]_vars

\* the caller preferred query_detailed although the query asks for a count, and
\* the hybrid query ran with the rerank model called
C12_Witness ==
    /\ resp.tool = "guided_query"
    /\ resp.status = "success"
    /\ fin.pref = "query_detailed"
    /\ fin.q = Q_COUNT
    /\ resp.selected_tool = "query_detailed"
    /\ RerankCall(fin.top_k) \in resp.calls

\* the arguments of the behaviour's guided_query calls fail its first two tests
GuidedInputRejected ==
    \/ trim(fin.q) = <<>>
    \/ ~fin.f.null /\ ~validateMetadataFilter(fin.f.v).null

(* C13: guided_query with a blank user_query, or with a metadata_filter    *)
(* the validator rejects, returns an error before doing anything else: it  *)
(* does not read or refresh the namespace cache, does not call the         *)
(* backend, and does not write the flow gate.                              *)
C13_GuidedFailsFast ==
    /\ [](GuidedInputRejected =>
             /\ namespacesCache = Null
             /\ lastCache = CacheEvent("none")
             /\ fetches = 0
             /\ pending = <<>>
             /\ stateByNamespace = EmptyMap
             /\ resp.calls = {})
    /\ [][GuidedCall /\ GuidedInputRejected =>
             /\ resp'.tool = "guided_query"
             /\ resp'.status = "error"
             /\ resp'.kind = (IF trim(fin.q) = <<>> THEN "empty_query"
                               ELSE "invalid_filter")]_vars

\* a call with a query and a filter holding $regex was answered with the filter error
C13_Witness ==
    /\ resp.tool = "guided_query"
    /\ resp.kind = "invalid_filter"
    /\ fin.f = Some(FILTER_BAD)
    /\ trim(fin.q) # <<>>
    /\ namespacesCache = Null

-----------------------------------------------------------------------------
(* The message of a tool's error response after a thrown exception.        *)

LogLevels == {"DEBUG", "INFO", "WARN", "ERROR"}

\* what the command line and the environment may hold for the level
RawLevels == {Null, Some("DEBUG"), Some("INFO"), Some("debug")}

\* a || b on optional strings
OrElse(a, b) == IF a.null THEN b ELSE a

\* main: the level chosen from the option and the two environment variables
mainLogLevel(optionLevel, envPineconeLevel, envLevel) ==
    LET rawLevel == OrElse(optionLevel, OrElse(envPineconeLevel, OrElse(envLevel, Some("INFO")))).v
    IN  IF rawLevel \in LogLevels THEN rawLevel ELSE "INFO"

\* thrown values: Error objects and a thrown string
Thrown ==
    { [isError |-> TRUE, message |-> "ECONNRESET 10.0.0.7:443"],
      [isError |-> TRUE, message |-> "Invalid API key"],
      [isError |-> FALSE, message |-> "boom"] }

\* error instanceof Error ? error.message : String(error)
errorMessageOf(error) == error.message

getToolErrorMessageRaw(error, fallbackMessage) == errorMessageOf(error)

getToolErrorMessage(error, fallbackMessage) ==
    IF fout.currentLevel = "DEBUG" THEN errorMessageOf(error) ELSE fallbackMessage

\* the catch blocks that test the environment variable themselves
envErrorMessage(error, fallbackMessage) ==
    IF fout.env_LOG_LEVEL = "DEBUG" THEN errorMessageOf(error) ELSE fallbackMessage

EnvCheckedTools == {"list_namespaces", "namespace_router", "query", "query_fast", "query_detailed"}

ErrorTools ==
    EnvCheckedTools \cup {"count", "query_documents", "keyword_search", "guided_query",
                          "suggest_query_params", "generate_urls"}

FallbackMessage(tool) ==
    CASE tool = "list_namespaces" -> "Failed to list namespaces"
      [] tool = "namespace_router" -> "Failed to route namespace"
      [] tool \in {"query", "query_fast", "query_detailed"} ->
             "An error occurred while processing your query"
      [] tool = "count" -> "Failed to get count"
      [] tool = "query_documents" -> "Failed to query and reassemble documents"
      [] tool = "keyword_search" -> "Keyword search failed"
      [] tool = "guided_query" -> "Failed to execute guided query"
      [] tool = "suggest_query_params" -> "Failed to suggest query params"
      [] tool = "generate_urls" -> "Failed to generate URLs"

\* the message a tool's catch block puts in its error response
catchMessage(tool, error) ==
    IF tool \in EnvCheckedTools THEN envErrorMessage(error, FallbackMessage(tool))
    ELSE getToolErrorMessage(error, FallbackMessage(tool))

ErrorInputs ==
    [fn : {"tool_error"}, optionLevel : RawLevels, envPineconeLevel : RawLevels,
     envLevel : RawLevels, tool : ErrorTools, thrown : Thrown]

InitError ==
    /\ InitServer
    /\ backend = <<>>
    /\ fin \in ErrorInputs
    /\ fout = NoInput

\* main sets the environment variable and the logger's level
MainStart ==
    /\ fin.fn = "tool_error"
    /\ fout = NoInput
    /\ LET logLevel == mainLogLevel(fin.optionLevel, fin.envPineconeLevel, fin.envLevel)
       IN  fout' = [fn |-> "main", env_LOG_LEVEL |-> logLevel, currentLevel |-> logLevel]
    /\ UNCHANGED <<serverVars, fin>>

\* a tool's handler throws and its catch block answers
ToolThrows ==
    /\ fout.fn = "main"
    /\ fout' = [fn |-> "tool_error", env_LOG_LEVEL |-> fout.env_LOG_LEVEL,
                currentLevel |-> fout.currentLevel,
                r |-> [status |-> "error", message |-> catchMessage(fin.tool, fin.thrown)]]
    /\ UNCHANGED <<serverVars, fin>>

NextError == MainStart \/ ToolThrows

SpecError == InitError /\ [][NextError]_vars

\* the server was started with the level DEBUG
DebugMode ==
    OrElse(fin.optionLevel, OrElse(fin.envPineconeLevel, fin.envLevel)) = Some("DEBUG")

(* C14: outside debug mode the message of a tool error response caused by  *)
(* a thrown exception is that tool's fixed fallback text, the same for     *)
(* every exception message; in debug mode it is the thrown exception's     *)
(* message.                                                                *)
C14_ErrorMessageHidden ==
    fout.fn = "tool_error" =>
        /\ fout.r.status = "error"
        /\ DebugMode => fout.r.message = fin.thrown.message
        /\ ~DebugMode =>
               /\ fout.r.message = FallbackMessage(fin.tool)
               /\ \A error \in Thrown : catchMessage(fin.tool, error) = fout.r.message

\* a tool using getToolErrorMessage answered outside debug mode, the level given in lower case
C14_Witness ==
    /\ fout.fn = "tool_error"
    /\ fin.tool = "guided_query"
    /\ fin.optionLevel = Some("debug")
    /\ fin.thrown.message = "Invalid API key"
    /\ fout.r.message = "Failed to execute guided query"

-----------------------------------------------------------------------------
(* mergeResults on the hit lists of one dense and one sparse search.       *)

\* longest hit list given to mergeResults
MaxMergeLen == 2

MergeIds == {"a", "b", "c"}
MergeScores == {0, 3, 5}

\* the chunk text tells the dense copy of a record from the sparse one
MergeHit(id, score, from) ==
    [_id |-> id, _score |-> score, fields |-> [chunk_text |-> StrV(from), title |-> StrV(id)]]

\* the hits of one search: the records of one namespace, each at most once
MergeLists(from) ==
    LET hitSet == {MergeHit(id, score, from) : id \in MergeIds, score \in MergeScores}
    IN  {hits \in UNION {[1..n -> hitSet] : n \in 0..MaxMergeLen} :
            \A i, j \in 1..Len(hits) : hits[i]._id = hits[j]._id => i = j}

MergeInputs == [fn : {"merge"}, dense : MergeLists("dense"), sparse : MergeLists("sparse")]

InitMerge ==
    /\ InitServer
    /\ backend = <<>>
    /\ fin \in MergeInputs
    /\ fout = NoInput

MergeCall ==
    /\ fin.fn = "merge"
    /\ fout = NoInput
    /\ fout' = [fn |-> "merge", r |-> mergeResults(fin.dense, fin.sparse)]
    /\ UNCHANGED <<serverVars, fin>>

NextMerge == MergeCall

SpecMerge == InitMerge /\ [][NextMerge]_vars

IdsOf(hits) == {hits[i]._id : i \in 1..Len(hits)}

\* the merged entries with this id
MergedWith(id) == {k \in 1..Len(fout.r) : fout.r[k]._id = id}

(* C15: mergeResults(A, B): an id in both A and B gets the score           *)
(* max(scoreA, scoreB); an id in only one input passes through unchanged;  *)
(* the length of the result is at most |A| + |B| and at least              *)
(* max(|A|, |B|) minus the overlap; the output is sorted by score          *)
(* descending.                                                             *)
C15_MergeKeepsBestScore ==
    fout.fn = "merge" =>
        LET A == fin.dense
            B == fin.sparse
            merged == fout.r
            overlap == Cardinality(IdsOf(A) \cap IdsOf(B))
        IN  /\ \A i \in 1..Len(A), j \in 1..Len(B) :
                   A[i]._id = B[j]._id =>
                       /\ Cardinality(MergedWith(A[i]._id)) = 1
                       /\ \A k \in MergedWith(A[i]._id) :
                              merged[k]._score = Max(A[i]._score, B[j]._score)
            /\ \A i \in 1..Len(A) :
                   A[i]._id \notin IdsOf(B) =>
                       \E k \in 1..Len(merged) :
                           /\ merged[k]._id = A[i]._id
                           /\ merged[k]._score = A[i]._score
                           /\ merged[k].chunk_text = "dense"
                           /\ merged[k].metadata = [title |-> A[i].fields["title"]]
            /\ \A j \in 1..Len(B) :
                   B[j]._id \notin IdsOf(A) =>
                       \E k \in 1..Len(merged) :
                           /\ merged[k]._id = B[j]._id
                           /\ merged[k]._score = B[j]._score
                           /\ merged[k].chunk_text = "sparse"
                           /\ merged[k].metadata = [title |-> B[j].fields["title"]]
            /\ IdsOf(merged) = IdsOf(A) \cup IdsOf(B)
            /\ Len(merged) <= Len(A) + Len(B)
            /\ Len(merged) >= Max(Len(A), Len(B)) - overlap
            /\ \A k \in 1..(Len(merged) - 1) : merged[k]._score >= merged[k + 1]._score

\* a record found by both searches, scored higher by the sparse one, merged with two others
C15_Witness ==
    /\ fout.fn = "merge"
    /\ Len(fin.dense) = 2
    /\ Len(fin.sparse) = 2
    /\ Len(fout.r) = 3
    /\ \E i, j \in 1..2 :
           /\ fin.dense[i]._id = fin.sparse[j]._id
           /\ fin.dense[i]._score < fin.sparse[j]._score
           /\ \E k \in 1..3 : /\ fout.r[k]._id = fin.dense[i]._id
                               /\ fout.r[k]._score = fin.sparse[j]._score
                               /\ k > 1

-----------------------------------------------------------------------------
(* reassemble-documents.ts: chunk-level results grouped into documents.    *)

CHUNK_ORDER_KEYS == <<"chunk_index", "chunk_index_0", "index", "loc">>

\* a ?? b: only an absent value passes to the next one
getDocumentKey(hit) ==
    LET str(f) == IF f \in DOMAIN hit.metadata /\ hit.metadata[f].t = "string"
                  THEN Some(hit.metadata[f].v) ELSE Null
    IN  OrElse(str("document_number"), OrElse(str("url"), OrElse(str("doc_id"), Some(hit.id)))).v

\* parseInt of a string of digits; -1 stands for a string /^\d+$/ does not match
ParseDigits(v) ==
    IF \E n \in 0..9 : ToString(n) = v THEN CHOOSE n \in 0..9 : ToString(n) = v ELSE -1

RECURSIVE chunkOrderFrom(_, _)
chunkOrderFrom(metadata, k) ==
    IF k > Len(CHUNK_ORDER_KEYS) THEN -1
    ELSE LET key == CHUNK_ORDER_KEYS[k]
         IN  IF key \in DOMAIN metadata /\ metadata[key].t = "number"
                 THEN metadata[key].v
             ELSE IF key \in DOMAIN metadata /\ metadata[key].t = "string"
                     /\ ParseDigits(metadata[key].v) >= 0
                 THEN ParseDigits(metadata[key].v)
             ELSE chunkOrderFrom(metadata, k + 1)

getChunkOrder(metadata) == chunkOrderFrom(metadata, 1)

\* the comparator given to sort
chunkCompare(a, b) ==
    LET orderA == getChunkOrder(a.metadata)
        orderB == getChunkOrder(b.metadata)
    IN  IF orderA >= 0 /\ orderB >= 0 THEN orderA - orderB
        ELSE IF orderA >= 0 THEN -1
        ELSE IF orderB >= 0 THEN 1
        ELSE 0

\* [...chunks].sort(chunkCompare), a stable sort
ChunkSort(chunks) ==
    LET n == Len(chunks)
        rank == ToArray([i \in 1..n |->
                    1 + Cardinality({j \in 1..n :
                            \/ chunkCompare(chunks[j], chunks[i]) < 0
                            \/ chunkCompare(chunks[j], chunks[i]) = 0 /\ j < i})])
    IN  ToArray([k \in 1..n |-> chunks[CHOOSE i \in 1..n : rank[i] = k]])

\* the keys of byDoc in insertion order
RECURSIVE docKeysIn(_, _)
docKeysIn(results, n) ==
    IF n = 0 THEN <<>>
    ELSE LET before == docKeysIn(results, n - 1)
             key == getDocumentKey(results[n])
         IN  IF key = "" \/ \E k \in 1..Len(before) : before[k] = key THEN before
             ELSE Append(before, key)

\* toMerge.map(c => c.content.trim()).filter(Boolean).join(separator)
RECURSIVE joinContent(_, _, _)
joinContent(toMerge, n, separator) ==
    IF n = 0 THEN <<>>
    ELSE LET before == joinContent(toMerge, n - 1, separator)
             content == trim(toMerge[n].content)
         IN  IF content = <<>> THEN before
             ELSE IF before = <<>> THEN content
             ELSE before \o separator \o content

MaxOf(S) == CHOOSE x \in S : \A y \in S : y <= x

reassembleByDocument(results, maxChunksPerDocument) ==
    LET maxChunks == IF maxChunksPerDocument.null THEN 200 ELSE maxChunksPerDocument.v
        separator == <<"\n", "\n">>
        keys == docKeysIn(results, Len(results))
        byDoc(docId) == SelectSeq(results, LAMBDA hit : getDocumentKey(hit) = docId)
    IN  ToArray([d \in 1..Len(keys) |->
            LET toMerge == slice(ChunkSort(byDoc(keys[d])), maxChunks)
            IN  [document_id |-> keys[d],
                 merged_content |-> joinContent(toMerge, Len(toMerge), separator),
                 metadata |-> toMerge[1].metadata,
                 chunk_count |-> Len(toMerge),
                 best_score |-> MaxOf({toMerge[k].score : k \in 1..Len(toMerge)})]])

\* longest result list given to reassembleByDocument
MaxChunkHits == 3

\* the identifier fields of a chunk
ChunkShapes == {"number", "empty_number", "url", "doc_id", "none"}

\* the ordering fields of a chunk
ChunkOrders == {"none", "index_0", "index_text_1"}

ChunkResult(i, shape, order) ==
    LET ident == CASE shape = "number" -> [document_number |-> StrV("P1"), url |-> StrV("u1")]
                   [] shape = "empty_number" -> [document_number |-> StrV(""), url |-> StrV("u1")]
                   [] shape = "url" -> [url |-> StrV("u1")]
                   [] shape = "doc_id" -> [doc_id |-> StrV("P1")]
                   [] shape = "none" -> [x \in {} |-> StrV("")]
        ordering == CASE order = "none" -> [x \in {} |-> StrV("")]
                      [] order = "index_0" -> [chunk_index |-> NumV(0)]
                      [] order = "index_text_1" -> [index |-> StrV("1")]
    IN  [id |-> ToString(i), content |-> <<" ", ToString(i)>>, score |-> i,
         metadata |-> ident @@ ordering, reranked |-> TRUE]

\* the result list whose i-th chunk has these identifier and ordering fields
ChunkResults(shapes, orders) ==
    ToArray([i \in 1..Len(shapes) |-> ChunkResult(i, shapes[i], orders[i])])

ReassembleInputs(n) ==
    [fn : {"reassemble"}, shapes : [1..n -> ChunkShapes], orders : [1..n -> ChunkOrders],
     maxChunks : {Null, Some(1), Some(2)}]

InitReassemble ==
    /\ InitServer
    /\ backend = <<>>
    /\ \E n \in 0..MaxChunkHits : fin \in ReassembleInputs(n)
    /\ fout = NoInput

ReassembleCall ==
    /\ fin.fn = "reassemble"
    /\ fout = NoInput
    /\ fout' = [fn |-> "reassemble",
                r |-> reassembleByDocument(ChunkResults(fin.shapes, fin.orders),
                                           fin.maxChunks)]
    /\ UNCHANGED <<serverVars, fin>>

NextReassemble == ReassembleCall

SpecReassemble == InitReassemble /\ [][NextReassemble]_vars

\* the results given to the call
ReassembleResults == ChunkResults(fin.shapes, fin.orders)

\* the input hits with the document key of hit i
GroupOf(i) ==
    {j \in 1..Len(ReassembleResults) :
        getDocumentKey(ReassembleResults[j]) = getDocumentKey(ReassembleResults[i])}

(* C16: reassembleByDocument partitions its input by document key          *)
(* (document_number, else url, else doc_id, else chunk id): every input    *)
(* hit is assigned to exactly one output document, and the chunk_count of  *)
(* each document is at most min(size of its group, maxChunksPerDocument).  *)
C16_ReassemblePartitions ==
    fout.fn = "reassemble" =>
        LET documents == fout.r
            maxChunks == IF fin.maxChunks.null THEN 200 ELSE fin.maxChunks.v
        IN  \A i \in 1..Len(ReassembleResults) :
                LET mine == {d \in 1..Len(documents) :
                                documents[d].document_id = getDocumentKey(ReassembleResults[i])}
                IN  /\ Cardinality(mine) = 1
                    /\ \A d \in mine :
                           documents[d].chunk_count <= Min(Cardinality(GroupOf(i)), maxChunks)

-----------------------------------------------------------------------------
(* suggestQueryParams on queries built around an intent phrase.            *)

\* what stands before and after the phrase: nothing, a separate word, a glued letter
PhrasePrefixes == {<<>>, <<"M", "L", " ">>, <<"x">>}
PhraseSuffixes == {<<>>, <<" ", "s", "a", "y", "?">>, <<"s">>}

OtherPhrases ==
    {<<"H", "o", "w", " ", "M", "a", "n", "y">>,
     <<"l", "i", "s", "t">>,
     <<"s", "a", "y">>,
     <<"h", "o", "w", " ", " ", "m", "a", "n", "y">>}

\* the phrases that express count intent, in any case
CountPhrases == CountIntentPatterns \cup {<<"H", "o", "w", " ", "M", "a", "n", "y">>}

SuggestSchemas ==
    {Null, Some(<<>>), Some(INFO_ML.metadata),
     Some(<< <<F_TITLE, "string">> >>),
     Some(<< <<F_AUTHOR, "string[]">>, <<F_CHUNK_TEXT, "string">>,
             <<F_DOCUMENT_NUMBER, "string">>, <<F_TITLE, "string">>,
             <<F_DOC_ID, "string">>, <<F_URL, "string">> >>)}

SuggestInputs ==
    [fn : {"suggest"}, schema : SuggestSchemas, prefix : PhrasePrefixes,
     phrase : CountIntentPatterns \cup OtherPhrases, suffix : PhraseSuffixes]

InitSuggest ==
    /\ InitServer
    /\ backend = <<>>
    /\ fin \in SuggestInputs
    /\ fout = NoInput

SuggestCall ==
    /\ fin.fn = "suggest"
    /\ fout = NoInput
    /\ fout' = [fn |-> "suggest",
                r |-> suggestQueryParams(fin.schema, fin.prefix \o fin.phrase \o fin.suffix)]
    /\ UNCHANGED <<serverVars, fin>>

NextSuggest == SuggestCall

SpecSuggest == InitSuggest /\ [][NextSuggest]_vars

\* the query holds a count-intent phrase as words of its own
QueryHasCountPhrase ==
    /\ fin.phrase \in CountPhrases
    /\ fin.prefix # <<"x">>
    /\ fin.suffix # <<"s">>

(* C17, as the claim states it: for every user query that contains a       *)
(* count-intent phrase and for every schema argument, suggestQueryParams   *)
(* returns use_count_tool = true.                                          *)
C17_Original ==
    fout.fn = "suggest" /\ QueryHasCountPhrase => fout.r.use_count_tool

(* C17, amended: for every user query that contains a count-intent phrase  *)
(* as whole words and for every schema argument with at least one field,   *)
(* suggestQueryParams returns use_count_tool = true; for a null schema or  *)
(* a schema without fields it returns use_count_tool = false whatever the  *)
(* query.                                                                  *)
C17_CountIntentWithSchema ==
    fout.fn = "suggest" =>
        IF fin.schema.null \/ fin.schema.v = <<>>
        THEN ~fout.r.use_count_tool /\ fout.r.recommended_tool = "query_fast"
        ELSE QueryHasCountPhrase =>
                 fout.r.use_count_tool /\ fout.r.recommended_tool = "count"

\* 'ML How Many say?' asked of a schema with one field
C17_Witness ==
    /\ fout.fn = "suggest"
    /\ fin.schema = Some(<< <<F_TITLE, "string">> >>)
    /\ fin.prefix = <<"M", "L", " ">>
    /\ fin.phrase = <<"H", "o", "w", " ", "M", "a", "n", "y">>
    /\ fin.suffix = <<" ", "s", "a", "y", "?">>
    /\ fout.r.use_count_tool

-----------------------------------------------------------------------------
(* rankNamespacesByQuery on inventories of up to three namespaces.         *)

NS_ML_WG == <<"m", "l", "-", "w", "g">>

RouterNames == {NS_ML, NS_WG, NS_ML_WG}

RouterInfos ==
    [namespace : RouterNames, recordCount : {3, 5},
     metadata : {<<>>, << <<F_TITLE, "string">> >>}]

\* the inventories: every namespace name at most once
RouterInventories ==
    {namespaces \in UNION {[1..n -> RouterInfos] : n \in 0..Cardinality(RouterNames)} :
        \A i, j \in 1..Len(namespaces) :
            namespaces[i].namespace = namespaces[j].namespace => i = j}

RouterTopN == 1..4

RouterInputs ==
    [fn : {"rank"}, q : Queries, namespaces : RouterInventories, topN : RouterTopN]

InitRouter ==
    /\ InitServer
    /\ backend = <<>>
    /\ fin \in RouterInputs
    /\ fout = NoInput

RouterCall ==
    /\ fin.fn = "rank"
    /\ fout = NoInput
    /\ fout' = [fn |-> "rank", r |-> rankNamespacesByQuery(fin.q, fin.namespaces, fin.topN)]
    /\ UNCHANGED <<serverVars, fin>>

NextRouter == RouterCall

SpecRouter == InitRouter /\ [][NextRouter]_vars

\* a ranks no higher than b: a lower score, or the same score and no fewer records
RanksNoHigher(a, b) ==
    \/ a.score < b.score
    \/ a.score = b.score /\ a.record_count >= b.record_count

\* what the ranking makes of one namespace of the inventory
RankedEntry(info) ==
    [namespace |-> info.namespace,
     score |-> scoreNamespace(trim(fin.q), info.namespace, Keys(info.metadata)),
     record_count |-> info.recordCount]

(* C18: rankNamespacesByQuery returns min(topN, number of namespaces)      *)
(* entries ordered by score descending, ties by record count ascending;    *)
(* every omitted namespace ranks no higher than every returned one.        *)
C18_RankingTopN ==
    fout.fn = "rank" =>
        LET ranked == fout.r
            all == {RankedEntry(fin.namespaces[i]) : i \in 1..Len(fin.namespaces)}
            returned == {ranked[k] : k \in 1..Len(ranked)}
        IN  /\ Len(ranked) = Min(fin.topN, Len(fin.namespaces))
            /\ Cardinality(returned) = Len(ranked)
            /\ returned \subseteq all
            /\ \A k \in 1..(Len(ranked) - 1) : RanksNoHigher(ranked[k + 1], ranked[k])
            /\ \A omitted \in all \ returned :
                   \A k \in 1..Len(ranked) : RanksNoHigher(omitted, ranked[k])

\* three namespaces, two of them tied on score, and the best two returned
C18_Witness ==
    /\ fout.fn = "rank"
    /\ Len(fin.namespaces) = 3
    /\ fin.topN = 2
    /\ Len(fout.r) = 2
    /\ fout.r[1].score > 0
    /\ fout.r[1].score = fout.r[2].score
    /\ fout.r[1].record_count < fout.r[2].record_count
    /\ fout.r[1].namespace = fin.namespaces[3].namespace

-----------------------------------------------------------------------------
(* URL generation for records without a url (generateUrlForNamespace).     *)
(* A metadata value is [t |-> "undefined"], [t |-> "number"] or            *)
(* [t |-> "string", v |-> characters].                                     *)

MAILING_BASE == <<"h", "t", "t", "p", "s", ":", "/", "/", "l", "i", "s", "t", "s", ".", "b", "o", "o", "s", "t", ".", "o", "r", "g", "/", "a", "r", "c", "h", "i", "v", "e", "s", "/", "l", "i", "s", "t", "/">>
MESSAGE_PATH == <<"/", "m", "e", "s", "s", "a", "g", "e", "/">>
SLACK_BASE == <<"h", "t", "t", "p", "s", ":", "/", "/", "a", "p", "p", ".", "s", "l", "a", "c", "k", ".", "c", "o", "m", "/", "c", "l", "i", "e", "n", "t", "/">>

\* asString: the trimmed string, or Null for a blank, missing or non-string value
asString(value) ==
    IF value.t = "string" /\ trim(value.v) # <<>> THEN Some(trim(value.v)) ELSE Null

\* the generator that reads doc_id and thread_id only
generatorMailingDocOrThread(metadata) ==
    LET docIdOrThread == OrElse(asString(metadata.doc_id), asString(metadata.thread_id))
    IN  IF docIdOrThread.null THEN [url |-> Null, method |-> "unavailable"]
        ELSE [url |-> Some(MAILING_BASE \o docIdOrThread.v \o <<"/">>),
              method |-> "generated.mailing"]

generatorMailing(metadata) ==
    LET listName == asString(metadata.list_name)
        docId == OrElse(asString(metadata.doc_id), asString(metadata.msg_id))
        threadId == asString(metadata.thread_id)
        docIdOrThread == OrElse(docId, threadId)
    IN  IF ~listName.null /\ ~docId.null /\ ~includes(docId.v, listName.v) THEN
            [url |-> Some(MAILING_BASE \o listName.v \o MESSAGE_PATH \o docId.v \o <<"/">>),
             method |-> "generated.mailing"]
        ELSE IF docIdOrThread.null THEN [url |-> Null, method |-> "unavailable"]
        ELSE [url |-> Some(MAILING_BASE \o docIdOrThread.v \o <<"/">>),
              method |-> "generated.mailing"]

generatorSlackCpplang(metadata) ==
    LET source == asString(metadata.source)
        teamId == asString(metadata.team_id)
        channelId == asString(metadata.channel_id)
        docId == asString(metadata.doc_id)
    IN  IF ~source.null THEN [url |-> source, method |-> "metadata.source"]
        ELSE IF teamId.null \/ channelId.null \/ docId.null THEN
            [url |-> Null, method |-> "unavailable"]
        ELSE LET messageId == SelectSeq(docId.v, LAMBDA c : c # ".")
             IN  [url |-> Some(SLACK_BASE \o teamId.v \o <<"/">> \o channelId.v
                               \o <<"/", "p">> \o messageId),
                  method |-> "generated.slack"]

generateUrlForNamespace(namespace, metadata) ==
    LET existingUrl == asString(metadata.url)
    IN  IF ~existingUrl.null THEN [url |-> existingUrl, method |-> "metadata.url"]
        ELSE IF namespace = "mailing" THEN generatorMailing(metadata)
        ELSE IF namespace = "slack-Cpplang" THEN generatorSlackCpplang(metadata)
        ELSE [url |-> Null, method |-> "unavailable"]

Undefined == [t |-> "undefined"]
Chars(s) == [t |-> "string", v |-> s]

UrlMetadata ==
    [url : {Undefined, Chars(<<" ">>), Chars(<<"u">>)},
     list_name : {Undefined, Chars(<<" ">>), Chars(<<"a">>), Chars(<<" ", "b", " ">>)},
     doc_id : {Undefined, Chars(<<" ">>), [t |-> "number"], Chars(<<"a", "b">>),
               Chars(<<"1", ".", "2", " ">>)},
     msg_id : {Undefined, Chars(<<"d">>), Chars(<<"a", "d">>)},
     thread_id : {Undefined, Chars(<<" ">>), Chars(<<"t">>)},
     source : {Undefined, Chars(<<"s">>)},
     team_id : {Undefined, Chars(<<"T">>)},
     channel_id : {Undefined, Chars(<<"C">>)}]

UrlInputs ==
    [fn : {"url"}, namespace : {"mailing", "slack-Cpplang", "wg21"}, metadata : UrlMetadata]

InitUrl ==
    /\ InitServer
    /\ backend = <<>>
    /\ fin \in UrlInputs
    /\ fout = NoInput

UrlCall ==
    /\ fin.fn = "url"
    /\ fout = NoInput
    /\ fout' = [fn |-> "url", r |-> generateUrlForNamespace(fin.namespace, fin.metadata)]
    /\ UNCHANGED <<serverVars, fin>>

NextUrl == UrlCall

SpecUrl == InitUrl /\ [][NextUrl]_vars

\* a field is present when it holds a string that is not blank
Present(field) == fin.metadata[field].t = "string" /\ trim(fin.metadata[field].v) # <<>>
ValueOf(field) == trim(fin.metadata[field].v)

\* the first of these fields that is present
FirstPresent(fields) ==
    ValueOf(fields[CHOOSE k \in 1..Len(fields) :
                       Present(fields[k]) /\ \A j \in 1..(k - 1) : ~Present(fields[j])])

-----------------------------------------------------------------------------
(* Namespace discovery with its sampling of records                        *)
(* (PineconeClient.listNamespacesWithMetadata).  A sampled metadata value  *)
(* is given by its kind; a match is its metadata as <<key, kind>> entries. *)

inferMetadataFieldType(value) ==
    CASE value = "null" -> "unknown"
      [] value = "empty_array" -> "array"
      [] value = "string_array" -> "string[]"
      [] value = "mixed_array" -> "array"
      [] value \in {"string", "number", "boolean"} -> value
      [] OTHER -> "object"

\* the body of the inner forEach: one metadata entry seen in a sample
noteField(metadataFields, entry) ==
    LET key == entry[1]
        inferredType == inferMetadataFieldType(entry[2])
        at == {k \in 1..Len(metadataFields) : metadataFields[k][1] = key}
    IN  IF at = {} THEN Append(metadataFields, <<key, inferredType>>)
        ELSE LET k == CHOOSE k \in at : TRUE
             IN  IF metadataFields[k][2] = "object" /\ inferredType = "string[]"
                 THEN [metadataFields EXCEPT ![k] = <<key, inferredType>>]
                 ELSE metadataFields

RECURSIVE noteEntries(_, _, _)
noteEntries(metadataFields, entries, n) ==
    IF n = 0 THEN metadataFields
    ELSE noteField(noteEntries(metadataFields, entries, n - 1), entries[n])

\* sampleQuery.matches.forEach over the first n matches
RECURSIVE noteMatches(_, _)
noteMatches(matches, n) ==
    IF n = 0 THEN <<>>
    ELSE noteEntries(noteMatches(matches, n - 1), matches[n], Len(matches[n]))

\* a sampling that throws: denseIndex.namespace(ns) or the sample query
SamplingFails(outcome) == outcome.kind \in {"namespace_throws", "query_rejects"}

\* the callback given to namespaces.map(...)
sampleNamespace(ns, recordCount, hasNamespace, outcome) ==
    [namespace |-> ns,
     recordCount |-> recordCount,
     metadata |->
        IF recordCount > 0 /\ hasNamespace /\ outcome.kind = "matches"
        THEN noteMatches(outcome.matches, Len(outcome.matches))
        ELSE <<>>]

\* discovery whose callback lets a sampling error through to the outer catch
listNamespacesFailFast(stats, hasNamespace, outcomes) ==
    IF stats.kind = "throws" THEN <<>>
    ELSE IF stats.kind = "no_describe" THEN <<>>
    ELSE IF \E i \in 1..Len(stats.namespaces) :
                /\ stats.namespaces[i].recordCount > 0
                /\ hasNamespace
                /\ SamplingFails(outcomes[stats.namespaces[i].namespace])
         THEN <<>>
    ELSE ToArray([i \in 1..Len(stats.namespaces) |->
             sampleNamespace(stats.namespaces[i].namespace, stats.namespaces[i].recordCount,
                             hasNamespace, outcomes[stats.namespaces[i].namespace])])

\* listNamespacesWithMetadata from the stats and the outcome of each sampling
listNamespacesSampled(stats, hasNamespace, outcomes) ==
    IF stats.kind = "throws" THEN <<>>
    ELSE IF stats.kind = "no_describe" THEN <<>>
    ELSE ToArray([i \in 1..Len(stats.namespaces) |->
             sampleNamespace(stats.namespaces[i].namespace, stats.namespaces[i].recordCount,
                             hasNamespace, outcomes[stats.namespaces[i].namespace])])

MATCH_OBJECT == << <<F_AUTHOR, "object">> >>
MATCH_LIST == << <<F_AUTHOR, "string_array">>, <<F_TITLE, "string">> >>

SampleOutcomes ==
    [kind : {"namespace_throws", "query_rejects", "no_query", "no_matches"}, matches : {<<>>}]
        \cup [kind : {"matches"},
              matches : {<<>>, <<MATCH_LIST>>, <<MATCH_OBJECT, MATCH_LIST>>,
                         <<MATCH_LIST, MATCH_OBJECT>>}]

\* what describeIndexStats reports: every namespace once, with its record count
StatsNamespaces ==
    {namespaces \in UNION {[1..n -> [namespace : NsArgs, recordCount : {0, 5}]] : n \in 0..2} :
        \A i, j \in 1..Len(namespaces) :
            namespaces[i].namespace = namespaces[j].namespace => i = j}

StatsOutcomes ==
    [kind : {"throws", "no_describe"}, namespaces : {<<>>}]
        \cup [kind : {"ok"}, namespaces : StatsNamespaces]

DiscoveryInputs ==
    [fn : {"discover"}, stats : StatsOutcomes, hasNamespace : BOOLEAN,
     outcomes : [NsArgs -> SampleOutcomes]]

InitDiscovery ==
    /\ InitServer
    /\ backend = <<>>
    /\ fin \in DiscoveryInputs
    /\ fout = NoInput

DiscoveryCall ==
    /\ fin.fn = "discover"
    /\ fout = NoInput
    /\ fout' = [fn |-> "discover",
                r |-> listNamespacesSampled(fin.stats, fin.hasNamespace, fin.outcomes)]
    /\ UNCHANGED <<serverVars, fin>>

NextDiscovery == DiscoveryCall

SpecDiscovery == InitDiscovery /\ [][NextDiscovery]_vars

\* the sampling of the i-th namespace of the stats was attempted and threw
SamplingFailed(i) ==
    /\ fin.stats.namespaces[i].recordCount > 0
    /\ fin.hasNamespace
    /\ SamplingFails(fin.outcomes[fin.stats.namespaces[i].namespace])

\* the sampling of the i-th namespace answered with matches
SamplingAnswered(i) ==
    /\ fin.stats.namespaces[i].recordCount > 0
    /\ fin.hasNamespace
    /\ fin.outcomes[fin.stats.namespaces[i].namespace].kind = "matches"

\* the metadata keys in the matches sampled for the i-th namespace
SampledKeys(i) ==
    LET matches == fin.outcomes[fin.stats.namespaces[i].namespace].matches
    IN  {matches[m][e][1] : <<m, e>> \in
            {<<m, e>> \in (1..Len(matches)) \X (1..2) : e <= Len(matches[m])}}

(* C20: in namespace discovery a failure while sampling one namespace does *)
(* not fail the discovery and does not affect any other namespace: the     *)
(* result has exactly one entry per namespace reported by stats, and the   *)
(* entry of the failed namespace has an empty field map.                   *)
C20_SamplingFailureIsolated ==
    fout.fn = "discover" /\ fin.stats.kind = "ok" =>
        /\ Len(fout.r) = Len(fin.stats.namespaces)
        /\ \A i \in 1..Len(fin.stats.namespaces) :
               /\ fout.r[i].namespace = fin.stats.namespaces[i].namespace
               /\ fout.r[i].recordCount = fin.stats.namespaces[i].recordCount
               /\ SamplingFailed(i) => fout.r[i].metadata = <<>>
               /\ SamplingAnswered(i) =>
                      {fout.r[i].metadata[k][1] : k \in 1..Len(fout.r[i].metadata)}
                          = SampledKeys(i)

\* the sampling of the first namespace threw and the second has its two fields
C20_Witness ==
    /\ fout.fn = "discover"
    /\ Len(fout.r) = 2
    /\ SamplingFailed(1)
    /\ fout.r[1].metadata = <<>>
    /\ fout.r[2].metadata = << <<F_AUTHOR, "string[]">>, <<F_TITLE, "string">> >>
    /\ fin.outcomes[fin.stats.namespaces[2].namespace].matches = <<MATCH_OBJECT, MATCH_LIST>>

-----------------------------------------------------------------------------
(* Properties of the whole server, checked under Spec *)

FilterTools ==
    {"count", "query", "query_fast", "query_detailed", "query_documents",
     "keyword_search", "guided_query"}

\* the filter passes validateMetadataFilter (an absent filter is not validated)
FilterAccepted(filter) == filter.null \/ validateMetadataFilter(filter.v).null

(* C21: in every tool that accepts a metadata_filter (count, query,        *)
(* query_fast, query_detailed, query_documents, keyword_search,            *)
(* guided_query) validateMetadataFilter runs before any backend call of    *)
(* the invocation, and a filter it rejects is never sent to the backend:   *)
(* a handler suspended at a backend call holds an accepted filter, every   *)
(* search a returning handler issued carries an accepted filter, and the   *)
(* filter error is returned without a backend call.                        *)
C21_FilterValidatedBeforeBackend ==
    /\ [](\A i \in 1..Len(pending) :
             pending[i].tool \in FilterTools => FilterAccepted(pending[i].filter))
    /\ [][resp = NoResponse /\ resp'.tool \in FilterTools =>
             /\ \A c \in resp'.calls : c.op = "search" => FilterAccepted(c.filter)
             /\ resp'.kind = "invalid_filter" =>
                    resp'.calls = {} /\ fetches' = fetches /\ pending' = pending]_vars

\* guided_query returned after searching with the filter it had validated
C21_Witness ==
    /\ resp.tool = "guided_query"
    /\ resp.selected_tool = "query_fast"
    /\ \E c \in resp.calls : c.op = "search" /\ c.filter = Some(FILTER_OK)

-----------------------------------------------------------------------------
(* Overlapping getNamespacesWithCache calls: several list_namespaces       *)
(* handlers are suspended at their fetch at the same time.                 *)

\* handlers suspended at once
MaxOverlap == 2

CanCallOverlapping ==
    \/ cacheIsFresh(namespacesCache, now)
    \/ Len(pending) < MaxOverlap /\ fetches + PendingFetches < MaxFetches + 1

OverlapStep ==
    \/ \E d \in Steps : Tick(d)
    \/ CanCallOverlapping /\ ListNamespacesTool
    \/ \E i \in 1..MaxOverlap, ok \in BOOLEAN : FetchComplete(i, ok)
    \/ InvalidateNamespacesCache

NextOverlap ==
    \/ Deliver
    \/ resp = NoResponse /\ OverlapStep

SpecOverlap == Init /\ [][NextOverlap]_vars

\* some suspended fetch returns in this step
SomeFetchCompletes == \E i \in 1..Len(pending), ok \in BOOLEAN : FetchComplete(i, ok)

(* C22, as the claim states it: at most one backend inventory fetch is in  *)
(* flight at any time.                                                     *)
C22_Original == PendingFetches <= 1

(* C22, amended: the refresh is not single-flight.  Every                  *)
(* getNamespacesWithCache call that starts while the slot is empty or      *)
(* expired starts a backend fetch of its own, also while other fetches    *)
(* are in flight, and every caller that missed returns the data of its    *)
(* own fetch with cache_hit = false.                                       *)
C22_EveryMissFetches ==
    /\ [][ListNamespacesTool /\ ~cacheIsFresh(namespacesCache, now) =>
             /\ Len(pending') = Len(pending) + 1
             /\ pending' = Append(pending, pending'[Len(pending')])
             /\ pending'[Len(pending')].pc = "fetch"
             /\ pending'[Len(pending')].now0 = now
             /\ resp' = resp
             /\ UNCHANGED <<namespacesCache, fetches>>]_vars
    /\ [][SomeFetchCompletes =>
             /\ fetches' = fetches + 1
             /\ PendingFetches' = PendingFetches - 1
             /\ ~resp'.cache_hit
             /\ lastCache'.ref = fetches'
             /\ lastCache'.ref # lastCache.ref]_vars

\* two fetches are in flight at once
C22_Witness == PendingFetches = 2 /\ fetches = 0

(* C23: under every interleaving of overlapping getNamespacesWithCache     *)
(* calls the cache slot is at all times either empty or holds the data     *)
(* returned by one completed fetch together with that same call's         *)
(* expiresAt (its start time + TTL): the slot changes only when it is      *)
(* cleared or when a suspended call's fetch returns, and then it takes     *)
(* that fetch's data, handed to that caller, with that call's start time   *)
(* plus the TTL.                                                           *)
C23_SlotHoldsOneFetch ==
    /\ [](namespacesCache # Null =>
             /\ namespacesCache.data.ref \in 1..fetches
             /\ namespacesCache.expiresAt <= now + FLOW_CACHE_TTL_MS)
    /\ [][namespacesCache' # namespacesCache =>
             \/ namespacesCache' = Null /\ lastCache'.kind = "invalidate"
             \/ \E i \in 1..Len(pending) :
                    /\ pending[i].pc = "fetch"
                    /\ pending' = RemoveAt(pending, i)
                    /\ fetches' = fetches + 1
                    /\ namespacesCache'.data.ref = fetches'
                    /\ namespacesCache'.expiresAt = pending[i].now0 + FLOW_CACHE_TTL_MS
                    /\ lastCache' = CacheReturn(namespacesCache'.data,
                                                namespacesCache'.expiresAt)]_vars

\* the call that started first returned last: the slot holds the second fetch
\* to return with the earlier call's expiry
C23_Witness ==
    /\ fetches = 2
    /\ now = 1
    /\ namespacesCache # Null
    /\ namespacesCache.data.ref = 2
    /\ namespacesCache.expiresAt = FLOW_CACHE_TTL_MS

\* a getNamespacesWithCache call returns to its caller in this step
CacheCallReturns == resp = NoResponse /\ resp' # NoResponse /\ lastCache'.kind = "return"

(* C24, as the claim states it: no two callers receive the same mutable    *)
(* result object: the data a getNamespacesWithCache call returns is        *)
(* neither the object stored in the cache slot nor the object the previous *)
(* call returned, so mutating it changes neither.  The field ref is the    *)
(* identity of the array listNamespacesWithMetadata created.               *)
C24_ResultsNotShared ==
    [][CacheCallReturns =>
          /\ namespacesCache' # Null => namespacesCache'.data.ref # lastCache'.ref
          /\ lastCache.kind = "return" => lastCache'.ref # lastCache.ref]_vars

(* C24, amended: the data a getNamespacesWithCache call returns is the     *)
(* array held in the cache slot: the call that fetched it and every call   *)
(* that hits the slot afterwards receive the same object, and only a new   *)
(* fetch brings a new one.                                                 *)
C24_DataIsStoredObject ==
    [][CacheCallReturns =>
          /\ namespacesCache' # Null
          /\ lastCache'.ref = namespacesCache'.data.ref
          /\ resp'.cache_hit =>
                 /\ namespacesCache # Null
                 /\ lastCache'.ref = namespacesCache.data.ref
                 /\ fetches' = fetches
          /\ ~resp'.cache_hit => lastCache'.ref = fetches' /\ fetches' = fetches + 1]_vars

\* a second caller was handed the array of the first fetch, which the slot holds
C24_Witness ==
    /\ resp.tool = "list_namespaces"
    /\ resp.cache_hit
    /\ fetches = 1
    /\ lastCache.ref = 1
    /\ namespacesCache # Null
    /\ namespacesCache.data.ref = 1

-----------------------------------------------------------------------------
(* Type inference for one metadata field over the samples of a namespace   *)
(* (the forEach of listNamespacesWithMetadata applied to a field that      *)
(* every sampled record carries).                                          *)

\* sampled records per namespace
MaxSamples == 3

ValueKinds ==
    {"null", "empty_array", "string_array", "mixed_array", "string", "number", "boolean",
     "record"}

InferInputs(n) == [fn : {"infer"}, kinds : [1..n -> ValueKinds]]

\* the matches of a sample query in which F_AUTHOR holds the given kinds in turn
matchesOf(kinds) == ToArray([i \in 1..Len(kinds) |-> << <<F_AUTHOR, kinds[i]>> >>])

InitInfer ==
    /\ InitServer
    /\ backend = <<>>
    /\ \E n \in 1..MaxSamples : fin \in InferInputs(n)
    /\ fout = NoInput

InferCall ==
    /\ fin.fn = "infer"
    /\ fout = NoInput
    /\ fout' = [fn |-> "infer",
                r |-> noteMatches(matchesOf(fin.kinds), Len(fin.kinds))]
    /\ UNCHANGED <<serverVars, fin>>

NextInfer == InferCall

SpecInfer == InitInfer /\ [][NextInfer]_vars

(* C25: when the samples disagree on a field's type, the field ends        *)
(* tagged string[] whenever some sample holds a list of strings and an     *)
(* earlier sample produced 'array' or 'object'.                            *)
C25_UpgradesToStringList ==
    fout.fn = "infer" =>
        ((\E i, j \in 1..Len(fin.kinds) :
             /\ i < j
             /\ inferMetadataFieldType(fin.kinds[i]) \in {"array", "object"}
             /\ inferMetadataFieldType(fin.kinds[j]) = "string[]")
         => fout.r = << <<F_AUTHOR, "string[]">> >>)

-----------------------------------------------------------------------------
(* C26: query_documents with top_k = k requests min(500, 50 * k) chunk     *)
(* hits from each index: every index search a query_documents call issues  *)
(* asks for min(QUERY_DOCUMENTS_MAX_CHUNKS, k * CHUNKS_PER_DOCUMENT) hits. *)
C26_ChunkHitsRequested ==
    [][\A n \in NsArgs, a \in ExecArgs, k \in DocTopKArgs : \A o \in OutcomesFor(n, a) :
          QueryDocumentsTool(n, a.q, k, a.f, o.dense, o.sparse, o.rerankOk) =>
              \A c \in resp'.calls :
                  c.op = "search" =>
                      c.topK = Min(QUERY_DOCUMENTS_MAX_CHUNKS, k * CHUNKS_PER_DOCUMENT)]_vars

-----------------------------------------------------------------------------
(* invalidateNamespacesCache() called at a given time while list_namespaces *)
(* calls overlap.  The input is the time of the invalidation; the clock    *)
(* leaves that time only once the invalidation has run, as the last cache  *)
(* event of that time.                                                     *)

InvalidateTimes == {0, 1}

InitInvalidate ==
    /\ InitServer
    /\ backend \in Inventories
    /\ fin \in [fn : {"invalidate"}, at : InvalidateTimes]
    /\ fout = NoInput

InvalidateStep ==
    \/ \E d \in Steps : (now = fin.at => lastCache.kind = "invalidate") /\ Tick(d)
    \/ CanCallOverlapping /\ ListNamespacesTool
    \/ \E i \in 1..MaxOverlap, ok \in BOOLEAN : FetchComplete(i, ok)
    \/ now = fin.at /\ InvalidateNamespacesCache

NextInvalidate ==
    \/ Deliver
    \/ resp = NoResponse /\ InvalidateStep

SpecInvalidate == InitInvalidate /\ [][NextInvalidate]_vars

(* C27: after invalidateNamespacesCache() has returned, a                   *)
(* getNamespacesWithCache call that starts later is not served from data   *)
(* whose fetch began before the invalidation: if it is a cache hit, the    *)
(* entry it reads was stored by a call that started at or after the        *)
(* invalidation (so the first call to start misses and fetches anew).      *)
C27_FreshAfterInvalidate ==
    [][ListNamespacesTool /\ now > fin.at /\ resp'.cache_hit =>
          namespacesCache.expiresAt >= fin.at + FLOW_CACHE_TTL_MS]_vars

-----------------------------------------------------------------------------
\* the slot holds the result of a discovery whose stats call failed
HoldsFailedDiscovery(cache) == ~cache.null /\ cache.data.items = <<>>

(* C28: when the stats call of a discovery fails,                           *)
(* listNamespacesWithMetadata returns [] and getNamespacesWithCache stores  *)
(* it as a normal entry, expiring one TTL after the start of the call that *)
(* fetched it; every call that finds this entry before its expiry returns  *)
(* cache_hit = true with that empty list and makes no backend call.        *)
C28_FailureIsCached ==
    /\ [][\A i \in 1..Len(pending) : FetchComplete(i, FALSE) =>
             /\ HoldsFailedDiscovery(namespacesCache')
             /\ namespacesCache'.expiresAt = pending[i].now0 + FLOW_CACHE_TTL_MS
             /\ ~resp'.cache_hit]_vars
    /\ [][ListNamespacesTool /\ HoldsFailedDiscovery(namespacesCache)
                             /\ now < namespacesCache.expiresAt =>
             /\ ReturnsWithoutFetch
             /\ resp'.cache_hit
             /\ lastCache'.ref = namespacesCache.data.ref
             /\ PendingFetches' = PendingFetches
             /\ namespacesCache' = namespacesCache]_vars

\* a later call was answered from the cached failure
C28_Witness ==
    /\ resp.tool = "list_namespaces"
    /\ resp.cache_hit
    /\ HoldsFailedDiscovery(namespacesCache)
    /\ lastCache.ref = namespacesCache.data.ref
    /\ backend # <<>>
    /\ now > 0

-----------------------------------------------------------------------------
(* The server with list_namespaces and invalidateNamespacesCache added to  *)
(* the steps of Spec: the flow gate next to every operation of the cache.  *)

GateStep ==
    \/ ServerStep
    \/ CanCallCached /\ ListNamespacesTool
    \/ InvalidateNamespacesCache

NextGate ==
    \/ Deliver
    \/ resp = NoResponse /\ GateStep

SpecGate == Init /\ [][NextGate]_vars

\* the flow-gate entry of namespace n in the Map, or Null
EntryOf(map, n) == IF n \in DOMAIN map THEN Some(map[n]) ELSE Null

\* a handler that calls markSuggested(n) has reached that call in this step
MarksNamespace(n) ==
    \/ resp = NoResponse /\ resp'.tool = "suggest_query_params" /\ resp'.ns = n
    \/ /\ Len(pending') > 0
       /\ pending'[Len(pending')].tool = "guided_query"
       /\ pending'[Len(pending')].pc = "exec"
       /\ pending'[Len(pending')].ns = Some(n)
       /\ pending' # pending

(* C29: the flow-gate entry of a namespace N is written only by            *)
(* markSuggested(N) and removed only by a requireSuggested(N) that finds   *)
(* it expired; a requireSuggested(N) that lets the call pass, gate         *)
(* operations on other namespaces, and the refresh or invalidation of the  *)
(* namespace cache leave it unchanged.                                     *)
C29_GateEntryLifecycle ==
    /\ [][\A n \in DOMAIN stateByNamespace \cup DOMAIN stateByNamespace' :
             EntryOf(stateByNamespace', n) # EntryOf(stateByNamespace, n) =>
                 IF n \in DOMAIN stateByNamespace'
                 THEN /\ MarksNamespace(n)
                      /\ stateByNamespace' =
                             markSuggested(stateByNamespace, n, stateByNamespace'[n], now)
                 ELSE /\ ExecToolReturns
                      /\ resp'.ns = n
                      /\ resp'.kind = "gate_expired"
                      /\ now - stateByNamespace[n].updatedAt > FLOW_CACHE_TTL_MS
                      /\ stateByNamespace' = MapDelete(stateByNamespace, n)]_vars
    /\ [][ExecToolReturns /\ resp'.kind \notin GateKinds =>
             stateByNamespace' = stateByNamespace]_vars
    /\ [][InvalidateNamespacesCache \/ (resp = NoResponse /\ resp'.tool = "list_namespaces") =>
             stateByNamespace' = stateByNamespace]_vars

\* an expired entry was removed by an execution tool called for its namespace,
\* and the entry of another namespace is still in the Map
C29_Witness ==
    /\ resp.tool \in ExecTools
    /\ resp.kind = "gate_expired"
    /\ resp.ns \notin DOMAIN stateByNamespace
    /\ DOMAIN stateByNamespace # {}
    /\ namespacesCache = Null

-----------------------------------------------------------------------------
\* an execution tool passes the flow gate in this step
ExecPassesGate ==
    /\ ExecToolReturns
    /\ resp'.kind \notin GateKinds \cup {"empty_query", "invalid_filter"}

\* the age, at this step, of the inventory the suggestion for n was computed from,
\* counted from the return of the fetch that brought it
InventoryAge(n) == now - lastMark[n].inventoryAt

(* C30, as the claim states it: whenever an execution tool passes the flow *)
(* gate for N, the inventory from which N's suggestion was computed had    *)
(* been fetched no more than 30 minutes before.                            *)
C30_Original ==
    [][ExecPassesGate => InventoryAge(resp'.ns) <= FLOW_CACHE_TTL_MS]_vars

(* C30, amended: whenever an execution tool passes the flow gate for N,    *)
(* the suggestion for N was recorded no more than 30 minutes before, from  *)
(* an inventory whose fetch had returned less than 30 minutes before the   *)
(* suggestion: the inventory is less than 60 minutes (two TTLs) old at the *)
(* execution.                                                              *)
C30_InventoryWithinTwoTtl ==
    [][ExecPassesGate =>
          /\ now - lastMark[resp'.ns].at <= FLOW_CACHE_TTL_MS
          /\ lastMark[resp'.ns].at - lastMark[resp'.ns].inventoryAt < FLOW_CACHE_TTL_MS
          /\ InventoryAge(resp'.ns) < 2 * FLOW_CACHE_TTL_MS]_vars

\* an execution tool searched on a suggestion whose inventory is older than one TTL
C30_Witness ==
    /\ resp.tool \in ExecTools
    /\ resp.calls # {}
    /\ resp.ns \in DOMAIN lastMark
    /\ InventoryAge(resp.ns) > FLOW_CACHE_TTL_MS

====
